---- MODULE Spec2Model ----
(***************************************************************************)
(* The spin / cascade resolution engine of the math-sdk sample games       *)
(* Alchemy (cluster pays, sticky doubling grid, symbol features), Volley   *)
(* Siege (scatter pays, sticky cell multipliers) and Guillotine (lines,    *)
(* guillotine jam/drop with reel multipliers).                             *)
(*                                                                         *)
(* Amounts are integers in hundredths of the stake (0.05 x stake = 5).     *)
(* Reels and rows are numbered from 0, as in the source.                   *)
(***************************************************************************)
EXTENDS Integers, Sequences, FiniteSets, TLC

VARIABLES
    game,                  \* which game's GameState this is
    pc,                    \* the position inside run_spin / run_freespin
    criteria,              \* the distribution conditions of the simulation
    attempt,               \* attempts of the while self.repeat loop so far
    rng,                   \* the seeded random stream: the draws made so far
    prev_events,           \* the events of an earlier run with the same seed
    board, special_syms_on_board, win_data, win_manager,
    wincap_triggered, final_win, gametype, fs, tot_fs, repeat,
    triggered_freegame, events,
    reel_multipliers, guillotine_resolved, wild_capability,
    fs_trigger_count,
    resolution,            \* the board resolve_guillotines found and what it did per reel
    position_multipliers,  \* Alchemy
    feature_pass,          \* Alchemy: what the feature pass of the spin was given and did
    multiplier_grid,       \* Volley Siege
    pass,                  \* the last multiplier / cascade pass: what it found and did
    reel_positions,        \* tumbling games: the strip position of the top row of each reel
    reelstrip,             \* tumbling games: the name of the strip the board was drawn from
    sim_stats,             \* Alchemy: the module-level statistics object of gamestate.py
    workers                \* the workers that run episodes side by side: where each one is

g_vars == << reel_multipliers, guillotine_resolved, wild_capability,
             fs_trigger_count, resolution >>

a_vars == << position_multipliers, feature_pass >>

v_vars == << multiplier_grid >>

t_vars == << reel_positions, reelstrip >>

s_vars == << sim_stats, workers >>

vars == << game, pc, criteria, attempt, rng, prev_events, board,
           special_syms_on_board, win_data, win_manager, wincap_triggered,
           final_win, gametype, fs, tot_fs, repeat, triggered_freegame, events,
           reel_multipliers, guillotine_resolved, wild_capability,
           fs_trigger_count, resolution, position_multipliers,
           feature_pass, multiplier_grid, pass, reel_positions, reelstrip,
           sim_stats, workers >>

Min(a, b) == IF a <= b THEN a ELSE b

Max(a, b) == IF a >= b THEN a ELSE b

RECURSIVE SeqSum(_)
SeqSum(s) == IF s = << >> THEN 0 ELSE Head(s) + SeqSum(Tail(s))

RECURSIVE SeqProd(_)
SeqProd(s) == IF s = << >> THEN 1 ELSE Head(s) * SeqProd(Tail(s))

SetMax(S) == CHOOSE x \in S : \A y \in S : y <= x

SetMin(S) == CHOOSE x \in S : \A y \in S : x <= y

basegame_type == "basegame"

freegame_type == "freegame"

\* create_symbol(name): a fresh symbol, not marked for removal, no attribute
create_symbol(name) == [name |-> name, explode |-> FALSE, reel_multiplier |-> 0]

----------------------------------------------------------------------------
(* Guillotine: configuration (games/0_0_guillotine/game_config.py) *)

Guillotine_num_reels == 5

Guillotine_num_rows == 4

Guillotine_wincap == 2000000

G_Reels == 0 .. Guillotine_num_reels - 1

G_Rows == 0 .. Guillotine_num_rows - 1

\* config.paytable[(kind, symbol)] in hundredths; 0 where the table has no entry
Guillotine_paytable(kind, sym) ==
    LET row == CASE sym = "H1" -> << 300, 500, 1000 >>
                 [] sym = "H2" -> << 200, 400, 800 >>
                 [] sym = "H3" -> << 100, 200, 500 >>
                 [] sym = "H4" -> << 50, 100, 300 >>
                 [] sym = "H5" -> << 40, 80, 200 >>
                 [] sym = "L1" -> << 40, 80, 200 >>
                 [] sym = "L2" -> << 20, 50, 150 >>
                 [] sym = "L3" -> << 20, 50, 150 >>
                 [] sym = "L4" -> << 10, 30, 100 >>
                 [] sym = "L5" -> << 10, 30, 100 >>
                 [] OTHER -> << 0, 0, 0 >>
    IN  IF kind \in 3 .. 5 THEN row[kind - 2] ELSE 0

\* config.paylines: the row of each reel, per line
paylines ==
    << << 0, 0, 0, 0, 0 >>, << 1, 1, 1, 1, 1 >>, << 2, 2, 2, 2, 2 >>,
       << 3, 3, 3, 3, 3 >>, << 0, 1, 2, 1, 0 >>, << 3, 2, 1, 2, 3 >>,
       << 0, 0, 1, 0, 0 >>, << 3, 3, 2, 3, 3 >>, << 1, 0, 0, 0, 1 >>,
       << 2, 3, 3, 3, 2 >>, << 0, 1, 1, 1, 0 >>, << 3, 2, 2, 2, 3 >>,
       << 1, 2, 3, 2, 1 >>, << 2, 1, 0, 1, 2 >> >>

Guillotine_freespin_triggers(gt, n) ==
    IF gt = basegame_type
    THEN CASE n = 3 -> 10 [] n = 4 -> 15 [] n = 5 -> 20 [] OTHER -> 0
    ELSE CASE n = 3 -> 5 [] n = 4 -> 8 [] n = 5 -> 12 [] OTHER -> 0

Guillotine_min_trigger == 3

multiplier_set == << 2, 3, 4, 5, 10, 15, 20, 25, 50, 100, 200 >>

\* the symbols resolve_guillotines treats as high: paytable symbols named H*
highs == { "H1", "H2", "H3", "H4", "H5" }

guillotine_syms == { "G" }

scatter_syms == { "S" }

\* config.jam_weights: both outcomes have a positive weight
jam_weights == { "jam", "drop" }

\* config.bonus_modes (force_g_chance in percent)
bonus_modes(mode) ==
    CASE mode = "base" ->
           [jam_allowed |-> TRUE, guaranteed_g |-> FALSE, behead_mode |-> "ADD",
            force_g_chance |-> 1,
            overlay_reels |-> [gt \in {basegame_type} |-> "SSR_Base"]]
      [] mode = "fs3" ->
           [jam_allowed |-> FALSE, guaranteed_g |-> FALSE, behead_mode |-> "ADD",
            force_g_chance |-> 5,
            overlay_reels |-> [gt \in {basegame_type, freegame_type} |->
                                 IF gt = basegame_type THEN "SSR_Base" ELSE "SSR_FS3"]]
      [] mode = "fs4" ->
           [jam_allowed |-> FALSE, guaranteed_g |-> TRUE, behead_mode |-> "ADD",
            force_g_chance |-> 12,
            overlay_reels |-> [gt \in {basegame_type, freegame_type} |->
                                 IF gt = basegame_type THEN "SSR_Base" ELSE "SSR_FS4"]]
      [] mode = "fs5" ->
           [jam_allowed |-> FALSE, guaranteed_g |-> TRUE, behead_mode |-> "MULTIPLY",
            force_g_chance |-> 20,
            overlay_reels |-> [gt \in {basegame_type, freegame_type} |->
                                 IF gt = basegame_type THEN "SSR_Base" ELSE "SSR_FS5"]]

\* The multipliers the model lets _draw_weighted_mult return: the first
\* MultChoices entries of this reordering of multiplier_set (every entry of
\* multiplier_set has a positive weight in g_mult_weights and in
\* symbol_behead_weights).
MultChoices == 2

DrawOrder == << 2, 200, 3, 100, 4, 50, 5, 25, 10, 20, 15 >>

MultDraws == { DrawOrder[i] : i \in 1 .. Min(MultChoices, Len(DrawOrder)) }

----------------------------------------------------------------------------
(* Guillotine: resolve_guillotines (games/0_0_guillotine/game_executables.py) *)

\* an enforcement that keeps the last occurrence instead of the first
EnforceOnePerReel_keep_last(col, names) ==
    LET rws == { r \in G_Rows : col[r].name \in names }
    IN  IF Cardinality(rws) > 1
        THEN [r \in G_Rows |-> IF r \in rws /\ r # SetMax(rws)
                                THEN create_symbol("L5") ELSE col[r]]
        ELSE col

\* "Enforce max 1 per reel (keep first occurrence)": every further occurrence
\* of a symbol of `names` on the reel becomes L5
EnforceOnePerReel(col, names) ==
    LET rws == { r \in G_Rows : col[r].name \in names }
    IN  IF Cardinality(rws) > 1
        THEN [r \in G_Rows |-> IF r \in rws /\ r # SetMin(rws)
                                THEN create_symbol("L5") ELSE col[r]]
        ELSE col

\* The behead draws for the rows r .. bottom of a reel, top to bottom: one
\* draw per high symbol; the set of all sequences the draws can produce
RECURSIVE BeheadDraws(_, _)
BeheadDraws(col, r) ==
    IF r > Guillotine_num_rows - 1 THEN { << >> }
    ELSE IF col[r].name \in highs
         THEN { << v >> \o rest : v \in MultDraws, rest \in BeheadDraws(col, r + 1) }
         ELSE BeheadDraws(col, r + 1)

\* the additive combination in every mode
CombineMult_add(mode_cfg, g_mult, behead_vals) == g_mult + SeqSum(behead_vals)

\* total_mult of a reel from the drawn g_mult and behead values
CombineMult(mode_cfg, g_mult, behead_vals) ==
    IF mode_cfg.behead_mode = "MULTIPLY"
    THEN g_mult * SeqProd(behead_vals)
    ELSE g_mult + SeqSum(behead_vals)

\* a drop that spares the G itself
DropReel_below(col, g_row, total_mult) ==
    [r \in G_Rows |-> IF r > g_row
                      THEN [name |-> "W", explode |-> FALSE,
                            reel_multiplier |-> total_mult]
                      ELSE col[r]]

\* "Convert G and its drop path into wilds carrying the reel multiplier"
DropReel(col, g_row, total_mult) ==
    [r \in G_Rows |-> IF r >= g_row
                      THEN [name |-> "W", explode |-> FALSE,
                            reel_multiplier |-> total_mult]
                      ELSE col[r]]

\* a jam that turns the G into a plain wild
JamReel_wild(col) ==
    [r \in G_Rows |-> IF col[r].name \in guillotine_syms THEN create_symbol("W") ELSE col[r]]

\* "Jam: leave symbols as-is, no wilds created, no multiplier applied"
JamReel(col) == col

\* a jam draw in every mode
jam_drawn_always(mode_cfg) == TRUE

\* "if mode_cfg.get('jam_allowed', False)": the jam-vs-drop outcome is drawn
jam_drawn(mode_cfg) == mode_cfg.jam_allowed

\* One iteration of "for reel_idx, reel in enumerate(self.board)": every result
\* the iteration can have, with the draws it made, in order (the jam draw is
\* logged as 0 for "jam" and 1 for "drop")
ResolveReel(col0, reel_idx, mode_cfg, capability) ==
    LET col1 == EnforceOnePerReel(col0, scatter_syms)
        col2 == EnforceOnePerReel(col1, guillotine_syms)
        g_rows == { r \in G_Rows : col2[r].name \in guillotine_syms }
    IN  IF g_rows = {}
        THEN { [col |-> col2, enforced |-> col2, mult |-> 0, outcome |-> "none",
                g_mult |-> 0, behead_vals |-> << >>, draws |-> << >>] }
        ELSE IF reel_idx \in DOMAIN capability /\ capability[reel_idx] # "P"
        THEN { [col |-> col2, enforced |-> col2, mult |-> 0, outcome |-> "incapable",
                g_mult |-> 0, behead_vals |-> << >>, draws |-> << >>] }
        ELSE LET g_row == SetMin(g_rows)
                 jam == jam_drawn(mode_cfg)
                 pre == IF jam THEN << 1 >> ELSE << >>
             IN  (IF jam
                  THEN { [col |-> JamReel(col2), enforced |-> col2, mult |-> 0,
                          outcome |-> "jam", g_mult |-> 0, behead_vals |-> << >>,
                          draws |-> << 0 >>] }
                  ELSE { })
                 \cup
                 { [col |-> DropReel(col2, g_row, CombineMult(mode_cfg, g, bv)),
                    enforced |-> col2,
                    mult |-> CombineMult(mode_cfg, g, bv),
                    outcome |-> "drop",
                    g_mult |-> g, behead_vals |-> bv,
                    draws |-> pre \o << g >> \o bv]
                   : g \in MultDraws, bv \in BeheadDraws(col2, g_row + 1) }

\* resolve_guillotines over the reels reel_idx .. last: the set of results
\* [cols, mults, outcomes, draws], each a function of the reel
RECURSIVE ResolveFrom(_, _, _, _)
ResolveFrom(b, reel_idx, mode_cfg, capability) ==
    IF reel_idx > Guillotine_num_reels - 1
    THEN { [cols |-> << >>, enforced |-> << >>, outcomes |-> << >>,
             mults |-> << >>, g_mults |-> << >>, behead_vals |-> << >>,
             draws |-> << >>] }
    ELSE { [cols |-> << o.col >> \o rest.cols,
            enforced |-> << o.enforced >> \o rest.enforced,
            outcomes |-> << o.outcome >> \o rest.outcomes,
            mults |-> << o.mult >> \o rest.mults,
            g_mults |-> << o.g_mult >> \o rest.g_mults,
            behead_vals |-> << o.behead_vals >> \o rest.behead_vals,
            draws |-> o.draws \o rest.draws]
           : o \in ResolveReel(b[reel_idx], reel_idx, mode_cfg, capability),
             rest \in ResolveFrom(b, reel_idx + 1, mode_cfg, capability) }

\* resolve_guillotines: the possible [board, reel_multipliers, outcome, draws]
resolve_guillotines(b, mode_cfg, capability) ==
    { [board |-> [reel \in G_Reels |-> res.cols[reel + 1]],
       reel_multipliers |->
           [reel \in { x \in G_Reels : res.outcomes[x + 1] = "drop" } |->
               res.mults[reel + 1]],
       enforced |-> [reel \in G_Reels |-> res.enforced[reel + 1]],
       outcome |-> [reel \in G_Reels |-> res.outcomes[reel + 1]],
       g_mult |-> [reel \in G_Reels |-> res.g_mults[reel + 1]],
       behead_vals |-> [reel \in G_Reels |-> res.behead_vals[reel + 1]],
       draws |-> res.draws]
      : res \in ResolveFrom(b, 0, mode_cfg, capability) }

\* a board left as it is, in the shape of a result of resolve_guillotines
resolved_before(b, rm) ==
    [board |-> b, reel_multipliers |-> rm,
     enforced |-> b,
     outcome |-> [reel \in G_Reels |-> "none"],
     g_mult |-> [reel \in G_Reels |-> 0],
     behead_vals |-> [reel \in G_Reels |-> << >>],
     draws |-> << >>]

\* an evaluation that resolves whatever the flag says
resolve_unless_resolved_always(resolved, b, rm, mode_cfg, capability) ==
    resolve_guillotines(b, mode_cfg, capability)

\* the head of evaluate_lines_board: "if not guillotine_resolved:
\* self.resolve_guillotines()"
resolve_unless_resolved(resolved, b, rm, mode_cfg, capability) ==
    IF ~resolved THEN resolve_guillotines(b, mode_cfg, capability)
    ELSE { resolved_before(b, rm) }

----------------------------------------------------------------------------
(* Guillotine: line evaluation *)

\* Lines.get_lines for one payline: the run from reel 1 of the line's first
\* non-wild symbol, wilds matching it
LineWin(b, line) ==
    LET cells == [reel \in G_Reels |-> b[reel][line[reel + 1]]]
        nonwild == { reel \in G_Reels : cells[reel].name # "W" }
        sym == IF nonwild = {} THEN "W" ELSE cells[SetMin(nonwild)].name
        run == { n \in 1 .. Guillotine_num_reels :
                   \A reel \in 0 .. n - 1 : cells[reel].name \in { sym, "W" } }
        kind == IF run = {} THEN 0 ELSE SetMax(run)
    IN  [symbol |-> sym, kind |-> kind,
         win |-> Guillotine_paytable(kind, sym),
         positions |-> [i \in 1 .. kind |-> << i - 1, line[i] >>]]

RECURSIVE LineWinsFrom(_, _)
LineWinsFrom(b, i) ==
    IF i > Len(paylines) THEN << >>
    ELSE LET w == LineWin(b, paylines[i])
         IN  (IF w.win > 0 THEN << w >> ELSE << >>) \o LineWinsFrom(b, i + 1)

RECURSIVE SumWins(_)
SumWins(wins) == IF wins = << >> THEN 0 ELSE Head(wins).win + SumWins(Tail(wins))

\* Lines.get_lines(board, config, ...)
get_lines(b) ==
    LET wins == LineWinsFrom(b, 1)
    IN  [totalWin |-> SumWins(wins), wins |-> wins]

\* the reels on which the win's positions hold a W carrying reel_multiplier
reels_with_mult(b, win) ==
    { p[1] : p \in { win.positions[i] : i \in DOMAIN win.positions } }
    \cap { reel \in G_Reels :
             \E i \in DOMAIN win.positions :
                 /\ win.positions[i][1] = reel
                 /\ b[reel][win.positions[i][2]].name = "W"
                 /\ b[reel][win.positions[i][2]].reel_multiplier > 0 }

rm_get(rm, r) == IF r \in DOMAIN rm THEN rm[r] ELSE 1

\* the multipliers of the line's reels added together
combined_mult_sum(b, rm, win) ==
    IF reels_with_mult(b, win) # { }
    THEN SeqSum([i \in 1 .. Guillotine_num_reels |->
                   IF i - 1 \in reels_with_mult(b, win) THEN rm_get(rm, i - 1) ELSE 0])
    ELSE 1

\* "Apply at most one reel multiplier per line"
combined_mult(b, rm, win) ==
    IF reels_with_mult(b, win) # { }
    THEN SetMax({ rm_get(rm, r) : r \in reels_with_mult(b, win) })
    ELSE 1

\* the loop of evaluate_lines_board over win_data["wins"]
\* min(a * m, cap) for a > 0, without forming a product beyond the cap
MinProduct(a, m, cap) == IF m > cap \div a THEN cap ELSE Min(a * m, cap)

adjust_win(b, rm, win) ==
    [win EXCEPT !.win = MinProduct(win.win, combined_mult(b, rm, win), Guillotine_wincap)]

\* a total that is the plain sum of the adjusted line wins
evaluate_lines_unclamped_total(b, rm) ==
    LET raw == get_lines(b)
        wins == [i \in DOMAIN raw.wins |-> adjust_win(b, rm, raw.wins[i])]
    IN  IF raw.totalWin > 0
        THEN [totalWin |-> SumWins(wins), wins |-> wins]
        ELSE raw

\* evaluate_lines_board after the resolution: win_data of the board
evaluate_lines(b, rm) ==
    LET raw == get_lines(b)
        wins == [i \in DOMAIN raw.wins |-> adjust_win(b, rm, raw.wins[i])]
    IN  IF raw.totalWin > 0
        THEN [totalWin |-> Min(SumWins(wins), Guillotine_wincap), wins |-> wins]
        ELSE raw

----------------------------------------------------------------------------
(* Shared engine state: win manager, wincap, final win, repeat *)

Alchemy_wincap == 500000

Volley_wincap == 500000

wincap ==
    CASE game = "guillotine" -> Guillotine_wincap
      [] game = "alchemy" -> Alchemy_wincap
      [] OTHER -> Volley_wincap

\* WinManager.reset_end_round_wins
reset_end_round_wins ==
    [running_bet_win |-> 0, spin_win |-> 0, basegame_wins |-> 0, freegame_wins |-> 0]

\* WinManager.update_spinwin(win_amount)
update_spinwin(wm, amount) ==
    [wm EXCEPT !.spin_win = @ + amount, !.running_bet_win = @ + amount]

\* WinManager.set_spin_win(win_amount)
set_spin_win(wm, amount) ==
    [wm EXCEPT !.running_bet_win = @ + (amount - wm.spin_win), !.spin_win = amount]

\* WinManager.reset_spin_win
reset_spin_win(wm) == [wm EXCEPT !.spin_win = 0]

\* WinManager.update_gametype_wins(gametype)
update_gametype_wins(wm, gt) ==
    IF gt = basegame_type
    THEN [wm EXCEPT !.basegame_wins = @ + wm.spin_win]
    ELSE [wm EXCEPT !.freegame_wins = @ + wm.spin_win]

\* evaluate_wincap's test: the cap is reached and was not yet reported
wincap_reached(wm, triggered) == wm.running_bet_win >= wincap /\ ~triggered

\* update_final_win: base plus free game wins, clamped to the wincap
update_final_win(wm) == Min(wm.basegame_wins + wm.freegame_wins, wincap)

\* check_repeat: the attempt is repeated when it misses the exact win the
\* condition set asks for, or a forced free game that did not happen
check_repeat(crit, fw, trig) ==
    \/ (crit.win_criteria # -1 /\ fw # crit.win_criteria)
    \/ (crit.force_freegame /\ ~trig)

\* how many attempts of one simulation the model follows
MaxAttempts == 2

\* The base spin and one free spin of a bonus, the last one of the initial
\* award, draw freely; every other free spin takes one fixed outcome of each
\* draw
Live(gt, n, award) == gt = basegame_type \/ n = award

\* how many outcomes of one feature draw a recorded run follows
SeedBranch == 2

\* up to k members of S
RECURSIVE Sampled(_, _)
Sampled(S, k) ==
    IF k = 0 \/ S = { } THEN { }
    ELSE LET x == CHOOSE y \in S : TRUE IN { x } \cup Sampled(S \ { x }, k - 1)

\* the outcomes a draw can have
Outcomes(S, live) ==
    IF ~live THEN Sampled(S, 1)
    ELSE IF rng.record /\ ~rng.replay THEN Sampled(S, SeedBranch)
    ELSE S

\* the seeded stream: a recorded run logs its draws, a run that replays the
\* seed meets the same values in the same order
Seeded(S) ==
    IF rng.replay
    THEN { r \in S : /\ rng.pos + Len(r.draws) <= Len(rng.log)
                     /\ \A i \in 1 .. Len(r.draws) : r.draws[i] = rng.log[rng.pos + i] }
    ELSE S

Advance(draws) ==
    IF rng.replay
    THEN [rng EXCEPT !.pos = @ + Len(draws)]
    ELSE IF rng.record
    THEN [rng EXCEPT !.pos = @ + Len(draws), !.log = @ \o draws]
    ELSE rng

\* positions of the symbols of `names` on board b, in scan order (reel, row)
RECURSIVE ScanFrom(_, _, _, _, _)
ScanFrom(b, names, reel, row, nreels) ==
    IF reel >= nreels THEN << >>
    ELSE IF row \notin DOMAIN b[reel] THEN ScanFrom(b, names, reel + 1, 0, nreels)
    ELSE (IF b[reel][row].name \in names THEN << << reel, row >> >> ELSE << >>)
         \o ScanFrom(b, names, reel, row + 1, nreels)

Positions(b, names) == ScanFrom(b, names, 0, 0, Cardinality(DOMAIN b))

board_names(b) == [reel \in DOMAIN b |-> [row \in DOMAIN b[reel] |-> b[reel][row].name]]

----------------------------------------------------------------------------
(* Guillotine: reel strips and the board draw *)

\* reel strips by name: one tuple per strip position, one entry per reel
reels(name) ==
    CASE name = "BR0" ->
           << << "H1", "L3", "H1", "H1", "H1" >>,
              << "S",  "L4", "L1", "L2", "L3" >>,
              << "L1", "S",  "S",  "L4", "L5" >>,
              << "L2", "L5", "G",  "L1", "L2" >>,
              << "L3", "L1", "L2", "S",  "S"  >>,
              << "H1", "G",  "L2", "H1", "H1" >>,
              << "H1", "L1", "H1", "G",  "H1" >>,
              << "H1", "L2", "H1", "H1", "H1" >> >>
      [] name \in { "FR0", "FR4", "FR5" } ->
           << << "L2", "G",  "H1", "L4", "S"  >>,
              << "S",  "H1", "L2", "L1", "S"  >>,
              << "H1", "L3", "H1", "L5", "L1" >>,
              << "L3", "L4", "S",  "L1", "L2" >>,
              << "L4", "L1", "L5", "L2", "L3" >>,
              << "L5", "H2", "L1", "L3", "L4" >> >>
      [] name = "SSR_Base" ->
           << << "X", "X", "X", "X", "X" >>,
              << "X", "X", "X", "X", "X" >>,
              << "X", "X", "X", "X", "X" >>,
              << "X", "X", "X", "X", "X" >>,
              << "X", "X", "X", "P", "X" >> >>
      [] name = "SSWCAP" ->
           << << "P", "P", "P", "P", "P" >>,
              << "P", "X", "P", "X", "P" >> >>
      [] OTHER ->   \* SSR_FS3, SSR_FS4, SSR_FS5
           << << "X", "X", "X", "X", "X" >>,
              << "X", "P", "X", "X", "X" >> >>

StripLen(name) == Len(reels(name))

StripSym(name, reel, pos) == reels(name)[(pos % StripLen(name)) + 1][reel + 1]

\* the window of Guillotine_num_rows symbols below a stop, on every reel
create_board_reelstrips(name, stop) ==
    [reel \in G_Reels |-> [row \in G_Rows |-> create_symbol(StripSym(name, reel, stop + row))]]

count_names(b, names) == Len(Positions(b, names))

\* the reel strip of a game type (the distribution's reel_weights)
reel_weights(crit, gt) ==
    IF gt = basegame_type THEN "BR0"
    ELSE IF crit.betmode = "fs4" THEN "FR4"
    ELSE IF crit.betmode = "fs5" THEN "FR5"
    ELSE "FR0"

\* the stop of the free spins that do not draw freely
QuietStop == 3

\* the stops the base draw can return under the distribution's conditions:
\* a forced free game draws a board with exactly a requested scatter count, a
\* base game that is not forced redraws until the scatters do not trigger,
\* a free game keeps any board
PrimaryStops(crit, gt, live) ==
    LET all == 0 .. StripLen(reel_weights(crit, gt)) - 1
        cnt(d) == count_names(create_board_reelstrips(reel_weights(crit, gt), d), scatter_syms)
    IN  IF gt = basegame_type /\ crit.force_freegame
        THEN { d \in all : cnt(d) \in crit.scatter_triggers }
        ELSE IF gt = basegame_type
        THEN { d \in all : cnt(d) < Guillotine_min_trigger }
        ELSE IF live THEN all
        ELSE { QuietStop }

\* a selection that takes the free spins of every trigger count for fs3
get_current_mode_config_fs3(betmode, gt, trigger_count) ==
    IF betmode \in { "fs3", "fs4", "fs5" } THEN bonus_modes(betmode)
    ELSE IF gt = freegame_type THEN bonus_modes("fs3")
    ELSE bonus_modes("base")

\* get_current_mode_config
get_current_mode_config(betmode, gt, trigger_count) ==
    IF betmode \in { "fs3", "fs4", "fs5" } THEN bonus_modes(betmode)
    ELSE IF gt = freegame_type
    THEN (IF trigger_count >= 5 THEN bonus_modes("fs5")
          ELSE IF trigger_count = 4 THEN bonus_modes("fs4")
          ELSE bonus_modes("fs3"))
    ELSE bonus_modes("base")

\* an overlay window that ends at the end of the strip, without wrap-around
apply_overlay_no_wrap(b, name, stop) ==
    [reel \in G_Reels |-> [row \in G_Rows |->
        IF stop + row < StripLen(name) /\ StripSym(name, reel, stop + row) = "P"
        THEN create_symbol("G") ELSE b[reel][row]]]

\* the overlay: every P of the overlay window puts a G on the board
apply_overlay(b, name, stop) ==
    [reel \in G_Reels |-> [row \in G_Rows |->
        IF StripSym(name, reel, stop + row) = "P" THEN create_symbol("G") ELSE b[reel][row]]]

\* the capability symbols read at the top row of the SSWCAP window
read_capability(stop) == [reel \in G_Reels |-> StripSym("SSWCAP", reel, stop)]

\* _ensure_guillotine_symbol: the boards it can leave and the draws it made
ensure_guillotine_symbol(b, guaranteed_g) ==
    IF ~guaranteed_g \/ count_names(b, guillotine_syms) > 0
    THEN { [board |-> b, draws |-> << >>] }
    ELSE { [board |-> [b EXCEPT ![reel][row] = create_symbol("G")], draws |-> << reel, row >>]
           : reel \in G_Reels, row \in G_Rows }

\* draw_board: primary stop, overlay stop, capability stop, guarantee
draw_board(crit, gt, trigger_count, live) ==
    LET mode_config == get_current_mode_config(crit.betmode, gt, trigger_count)
        reels_map == mode_config.overlay_reels
        has_overlay == gt \in DOMAIN reels_map
        ov_stops == IF has_overlay THEN 0 .. StripLen(reels_map[gt]) - 1 ELSE { 0 }
    IN  UNION { { [board |-> e.board,
                   drawn |-> create_board_reelstrips(reel_weights(crit, gt), d),
                   wild_capability |-> read_capability(c),
                   draws |-> << d, o, c >> \o e.draws]
                  : e \in ensure_guillotine_symbol(
                             IF has_overlay
                             THEN apply_overlay(create_board_reelstrips(reel_weights(crit, gt), d),
                                                reels_map[gt], o)
                             ELSE create_board_reelstrips(reel_weights(crit, gt), d),
                             mode_config.guaranteed_g) }
                : d \in PrimaryStops(crit, gt, live), o \in ov_stops,
                  c \in 0 .. StripLen("SSWCAP") - 1 }

----------------------------------------------------------------------------
(* Events (src/events): the records appended to book.events *)

reveal_event(b, gt) == [type |-> "reveal", board |-> board_names(b), gameType |-> gt]

win_info_event(wd) == [type |-> "winInfo", totalWin |-> wd.totalWin, wins |-> wd.wins]

set_win_event(wm) == [type |-> "setWin", amount |-> Min(wm.spin_win, wincap)]

set_total_event(wm) == [type |-> "setTotalWin", amount |-> Min(wm.running_bet_win, wincap)]

wincap_event(wm) == [type |-> "wincap", amount |-> Min(wm.running_bet_win, wincap)]

fs_trigger_event(tot, positions, gt) ==
    [type |-> "freeSpinTrigger", totalFs |-> tot, positions |-> positions, gameType |-> gt]

update_freespin_event(n, tot) == [type |-> "updateFreeSpin", amount |-> n, total |-> tot]

freespin_end_event(wm) == [type |-> "freeSpinEnd", amount |-> Min(wm.freegame_wins, wincap)]

final_win_event(amount) == [type |-> "finalWin", amount |-> amount]

\* Lines.emit_linewin_events
emit_linewin_events(wm, wd) ==
    (IF wm.spin_win > 0 THEN << win_info_event(wd), set_win_event(wm) >> ELSE << >>)
    \o << set_total_event(wm) >>

\* SimulationStats.reset: the counters that run_spin, run_freespin and
\* _apply_features_after_tumbles raise with "+="
SimulationStats_reset ==
    [total_spins |-> 0, base_spins |-> 0, total_tumbles |-> 0,
     total_freespin_triggers |-> 0, total_freespins_played |-> 0, retriggers |-> 0,
     wild_potion_triggers |-> 0, symbol_transform_triggers |-> 0,
     elixir_bomb_triggers |-> 0]

\* the counters of _apply_features_after_tumbles: "+= len(positions)" for the
\* features met on the board
track_features(stats, special) ==
    [stats EXCEPT !.wild_potion_triggers = @ + Len(special.potion),
                  !.symbol_transform_triggers = @ + Len(special.transform),
                  !.elixir_bomb_triggers = @ + Len(special.bomb)]

no_win_data == [totalWin |-> 0, wins |-> << >>]

\* nothing passed over a multiplier grid yet
no_pass ==
    [kind |-> "none", before |-> << >>, after |-> << >>, wins |-> << >>,
     removed |-> 0, iterations |-> 0]

----------------------------------------------------------------------------
(* The episode: steps shared by the games *)

\* run_spin up to the loop: reset_seed(sim) and self.repeat = True
RunSpin ==
    /\ pc = "start"
    /\ pc' = "loop"
    /\ repeat' = TRUE
    /\ rng' = [rng EXCEPT !.pos = 0]
    /\ UNCHANGED << s_vars, game, criteria, attempt, prev_events, board,
                    special_syms_on_board, win_data, win_manager,
                    wincap_triggered, final_win, gametype, fs, tot_fs,
                    triggered_freegame, events, g_vars, a_vars, v_vars, t_vars, pass >>

\* the loop "while self.repeat" is left, or was left by a break: imprint_wins
ImprintWins ==
    /\ \/ pc = "loop" /\ ~repeat
       \/ pc = "break"
    /\ pc' = "done"
    /\ UNCHANGED << s_vars, game, criteria, attempt, rng, prev_events, board,
                    special_syms_on_board, win_data, win_manager,
                    wincap_triggered, final_win, gametype, fs, tot_fs, repeat,
                    triggered_freegame, events, g_vars, a_vars, v_vars, t_vars, pass >>

\* evaluate_finalwin and check_repeat
Finalize ==
    /\ pc = "final"
    /\ final_win' = update_final_win(win_manager)
    /\ events' = events \o << final_win_event(update_final_win(win_manager)) >>
    /\ repeat' = (repeat \/ check_repeat(criteria, update_final_win(win_manager),
                                         triggered_freegame))
    /\ pc' = "loop"
    /\ UNCHANGED << s_vars, game, criteria, attempt, rng, prev_events, board,
                    special_syms_on_board, win_data, win_manager,
                    wincap_triggered, gametype, fs, tot_fs,
                    triggered_freegame, g_vars, a_vars, v_vars, t_vars, pass >>

----------------------------------------------------------------------------
(* Guillotine: run_spin and run_freespin (games/0_0_guillotine/gamestate.py) *)

Guillotine_special_symbols ==
    [wild |-> { "W" }, scatter |-> { "S" }, guillotine |-> { "G" }]

G_get_special_symbols_on_board(b) ==
    [k \in DOMAIN Guillotine_special_symbols |-> Positions(b, Guillotine_special_symbols[k])]

\* check_fs_condition: enough scatters for the smallest trigger
G_check_fs_condition(special, rep) ==
    Len(special.scatter) >= Guillotine_min_trigger /\ ~rep

G_Live(gt, n) ==
    Live(gt, n, Guillotine_freespin_triggers(basegame_type, fs_trigger_count))

\* one pass of "while self.repeat": reset_book, draw_board
G_Draw ==
    /\ game = "guillotine" /\ pc = "loop" /\ repeat /\ attempt < MaxAttempts
    /\ \E r \in Seeded(draw_board(criteria, basegame_type, fs_trigger_count, TRUE)) :
          /\ board' = r.board
          /\ wild_capability' = r.wild_capability
          /\ special_syms_on_board' = G_get_special_symbols_on_board(r.drawn)
          /\ events' = << reveal_event(r.drawn, basegame_type) >>
          /\ rng' = Advance(r.draws)
    /\ win_manager' = reset_end_round_wins
    /\ win_data' = no_win_data
    /\ wincap_triggered' = FALSE
    /\ triggered_freegame' = FALSE
    /\ final_win' = 0
    /\ gametype' = basegame_type
    /\ fs' = 0 /\ tot_fs' = 0
    /\ repeat' = FALSE
    /\ guillotine_resolved' = FALSE
    /\ reel_multipliers' = << >>
    /\ attempt' = attempt + 1
    /\ pc' = "g_eval"
    /\ UNCHANGED << s_vars, game, criteria, prev_events, fs_trigger_count, resolution,
                    a_vars, v_vars, t_vars, pass >>

\* a spin loop that goes on after the wincap was reported
after_evaluate_wincap_goes_on(gt, hit) ==
    IF gt = basegame_type THEN "g_fscheck" ELSE "g_fs_loop"

\* free spins that end after their first spin
after_evaluate_wincap_leaves(gt, hit) ==
    IF gt = basegame_type
    THEN (IF hit THEN "break" ELSE "g_fscheck")
    ELSE "g_fs_end"

\* "if self.evaluate_wincap(): break", in run_spin and in run_freespin: where
\* the episode continues
after_evaluate_wincap(gt, hit) ==
    IF gt = basegame_type
    THEN (IF hit THEN "break" ELSE "g_fscheck")
    ELSE (IF hit THEN "g_fs_end" ELSE "g_fs_loop")

\* evaluate_lines_board, the retrigger of a free spin, update_gametype_wins
\* and evaluate_wincap
G_Evaluate ==
    /\ game = "guillotine" /\ pc \in { "g_eval", "g_fs_eval" }
    /\ LET mode_cfg == get_current_mode_config(criteria.betmode, gametype, fs_trigger_count)
       IN  \E res \in Seeded(Outcomes(resolve_unless_resolved(guillotine_resolved, board,
                                          reel_multipliers, mode_cfg, wild_capability),
                                      G_Live(gametype, fs))) :
           \E wd \in { evaluate_lines(res.board, res.reel_multipliers) } :
             LET wm1 == IF wd.totalWin > 0 THEN update_spinwin(win_manager, wd.totalWin)
                        ELSE win_manager
                 special == G_get_special_symbols_on_board(res.board)
                 retrigger == gametype = freegame_type /\ G_check_fs_condition(special, repeat)
                 tot == IF retrigger
                        THEN tot_fs + Guillotine_freespin_triggers(gametype, Len(special.scatter))
                        ELSE tot_fs
                 wm2 == update_gametype_wins(wm1, gametype)
                 hit == wincap_reached(wm2, wincap_triggered)
             IN  /\ board' = res.board
                 /\ reel_multipliers' = res.reel_multipliers
                 /\ guillotine_resolved' = TRUE
                 /\ resolution' = [received |-> board, enforced |-> res.enforced,
                                   outcome |-> res.outcome, mode |-> mode_cfg,
                                   g_mult |-> res.g_mult,
                                   behead_vals |-> res.behead_vals,
                                   capability |-> wild_capability]
                 /\ special_syms_on_board' = special
                 /\ win_data' = wd
                 /\ win_manager' = wm2
                 /\ tot_fs' = tot
                 /\ wincap_triggered' = (wincap_triggered \/ hit)
                 /\ events' = events \o emit_linewin_events(wm1, wd)
                        \o (IF retrigger
                            THEN << fs_trigger_event(tot, special.scatter, gametype) >>
                            ELSE << >>)
                        \o (IF hit THEN << wincap_event(wm2) >> ELSE << >>)
                 /\ rng' = Advance(res.draws)
                 /\ pc' = after_evaluate_wincap(gametype, hit)
    /\ UNCHANGED << s_vars, game, criteria, attempt, prev_events, final_win, gametype, fs,
                    repeat, triggered_freegame, wild_capability, fs_trigger_count,
                    a_vars, v_vars, t_vars, pass >>

\* "if self.check_fs_condition() and self.check_freespin_entry()": the trigger
\* count is stored and run_freespin_from_base starts the free spins
G_FsCheck ==
    /\ game = "guillotine" /\ pc = "g_fscheck"
    /\ IF G_check_fs_condition(special_syms_on_board, repeat)
       THEN IF criteria.force_freegame
            THEN /\ fs_trigger_count' = Len(special_syms_on_board.scatter)
                 /\ tot_fs' = Guillotine_freespin_triggers(gametype,
                                   Len(special_syms_on_board.scatter))
                 /\ events' = events \o
                        << fs_trigger_event(
                               Guillotine_freespin_triggers(gametype,
                                   Len(special_syms_on_board.scatter)),
                               special_syms_on_board.scatter, gametype) >>
                 /\ triggered_freegame' = TRUE
                 /\ fs' = 0
                 /\ gametype' = freegame_type
                 /\ win_manager' = reset_spin_win(win_manager)
                 /\ pc' = "g_fs_loop"
                 /\ UNCHANGED repeat
            ELSE /\ repeat' = TRUE
                 /\ pc' = "final"
                 /\ UNCHANGED << fs_trigger_count, tot_fs, events, triggered_freegame,
                                 fs, gametype, win_manager >>
       ELSE /\ pc' = "final"
            /\ UNCHANGED << fs_trigger_count, tot_fs, events, triggered_freegame,
                            fs, gametype, win_manager, repeat >>
    /\ UNCHANGED << s_vars, game, criteria, attempt, rng, prev_events, board,
                    special_syms_on_board, win_data, wincap_triggered, final_win,
                    reel_multipliers, guillotine_resolved, wild_capability,
                    resolution, a_vars, v_vars, t_vars, pass >>

\* one pass of "while self.fs < self.tot_fs": update_freespin, draw_board
G_FsDraw ==
    /\ game = "guillotine" /\ pc = "g_fs_loop" /\ fs < tot_fs
    /\ \E r \in Seeded(Outcomes(draw_board(criteria, freegame_type, fs_trigger_count,
                                           G_Live(freegame_type, fs + 1)),
                                G_Live(freegame_type, fs + 1))) :
          /\ board' = r.board
          /\ wild_capability' = r.wild_capability
          /\ special_syms_on_board' = G_get_special_symbols_on_board(r.drawn)
          /\ events' = events \o << update_freespin_event(fs + 1, tot_fs),
                                    reveal_event(r.drawn, freegame_type) >>
          /\ rng' = Advance(r.draws)
    /\ fs' = fs + 1
    /\ win_manager' = reset_spin_win(win_manager)
    /\ guillotine_resolved' = FALSE
    /\ reel_multipliers' = << >>
    /\ pc' = "g_fs_eval"
    /\ UNCHANGED << s_vars, game, criteria, attempt, prev_events, win_data, wincap_triggered,
                    final_win, gametype, tot_fs, repeat, triggered_freegame,
                    fs_trigger_count, resolution, a_vars, v_vars, t_vars, pass >>

\* the free spins are played, or were left by the wincap: end_freespin
G_FsEnd ==
    /\ game = "guillotine"
    /\ \/ pc = "g_fs_loop" /\ fs >= tot_fs
       \/ pc = "g_fs_end"
    /\ events' = events \o << freespin_end_event(win_manager) >>
    /\ pc' = "final"
    /\ UNCHANGED << s_vars, game, criteria, attempt, rng, prev_events, board,
                    special_syms_on_board, win_data, win_manager, wincap_triggered,
                    final_win, gametype, fs, tot_fs, repeat, triggered_freegame,
                    g_vars, a_vars, v_vars, t_vars, pass >>

G_Next == G_Draw \/ G_Evaluate \/ G_FsCheck \/ G_FsDraw \/ G_FsEnd

----------------------------------------------------------------------------
(* Tumbling boards (Alchemy, Volley Siege): strips, refill *)

\* the symbol of a strip table (one tuple per strip position) for a reel; a
\* board wider than the table repeats its last column
TableSym(t, reel, pos) == t[(pos % Len(t)) + 1][Min(reel, Len(t[1]) - 1) + 1]

NotExploding(sym) == ~sym.explode

\* one reel of tumble_board: the exploding symbols leave, the others fall, and
\* the reel is refilled from the strip positions above its stop
tumble_reel(col, t, reel, pos, nrows) ==
    LET surv == SelectSeq([i \in 1 .. nrows |-> col[i - 1]], NotExploding)
        k == nrows - Len(surv)
        top == pos + nrows * Len(t) - k
    IN  [col |-> [row \in 0 .. nrows - 1 |->
                     IF row < k THEN create_symbol(TableSym(t, reel, top + row))
                     ELSE surv[row - k + 1]],
         pos |-> top % Len(t),
         removed |-> k]

\* tumble_board over all reels
tumble_board(b, t, positions, nrows) ==
    LET res == [reel \in DOMAIN b |-> tumble_reel(b[reel], t, reel, positions[reel], nrows)]
    IN  [board |-> [reel \in DOMAIN b |-> res[reel].col],
         reel_positions |-> [reel \in DOMAIN b |-> res[reel].pos],
         removed |-> [reel \in DOMAIN b |-> res[reel].removed]]

RECURSIVE SumOver(_, _)
SumOver(f, S) ==
    IF S = { } THEN 0
    ELSE LET x == CHOOSE y \in S : TRUE IN f[x] + SumOver(f, S \ { x })

\* the cells of a board marked to explode
Exploding(b) ==
    { c \in (DOMAIN b) \X (0 .. 9) : c[2] \in DOMAIN b[c[1]] /\ b[c[1]][c[2]].explode }

\* a set of cells as a sequence in scan order (reel, then row)
RECURSIVE ScanOrder(_)
ScanOrder(S) ==
    IF S = { } THEN << >>
    ELSE LET c == CHOOSE x \in S : \A y \in S : x[1] < y[1] \/ (x[1] = y[1] /\ x[2] <= y[2])
         IN  << c >> \o ScanOrder(S \ { c })

tumble_event(b) == [type |-> "tumbleBoard", board |-> board_names(b)]

update_tumble_win_event(wm) == [type |-> "updateTumbleWin", amount |-> Min(wm.spin_win, wincap)]

\* emit_tumble_win_events: the win events of a winning evaluation, and
\* evaluate_wincap
emit_tumble_win_events(wm, wd, triggered) ==
    IF wd.totalWin > 0
    THEN << win_info_event(wd), update_tumble_win_event(wm) >>
         \o (IF wincap_reached(wm, triggered) THEN << wincap_event(wm) >> ELSE << >>)
    ELSE << >>

\* the wincap_triggered flag after emit_tumble_win_events
emit_tumble_wincap(wm, wd, triggered) ==
    triggered \/ (wd.totalWin > 0 /\ wincap_reached(wm, triggered))

----------------------------------------------------------------------------
(* Alchemy: configuration (games/0_0_alchemy/game_config.py) *)

\* the board of the model: Alchemy_num_reels x Alchemy_num_rows cells
Alchemy_num_reels == 3

Alchemy_num_rows == 3

A_Reels == 0 .. Alchemy_num_reels - 1

A_Rows == 0 .. Alchemy_num_rows - 1

A_Cells == A_Reels \X A_Rows

maximum_board_mult == 64

wild_potion_range == << 1, 3 >>

bomb_explosion_radius == 1

transformable_symbols == << "L1", "L2", "L3", "L4", "H1", "H2", "H3", "H4" >>

transform_target_symbols == << "H1", "H2", "H3", "H4" >>

Alchemy_special_symbols ==
    [wild |-> { "W" }, scatter |-> { "S" }, potion |-> { "P" }, bomb |-> { "B" },
     transform |-> { "T" }]

\* the symbols of the paytable, in its order
Alchemy_pay_symbols == << "H1", "H2", "H3", "H4", "L1", "L2", "L3", "L4" >>

\* a table whose first range starts at 4
Alchemy_paytable_from_four(size, sym) ==
    LET row == CASE sym = "H1" -> << 200, 400, 800, 2000 >>
                 [] sym = "H2" -> << 100, 200, 400, 1200 >>
                 [] sym = "H3" -> << 60, 120, 250, 800 >>
                 [] sym = "H4" -> << 40, 80, 200, 600 >>
                 [] sym = "L1" -> << 25, 50, 120, 300 >>
                 [] sym = "L2" -> << 20, 40, 100, 250 >>
                 [] sym = "L3" -> << 10, 25, 60, 150 >>
                 [] sym = "L4" -> << 5, 15, 40, 100 >>
                 [] OTHER -> << 0, 0, 0, 0 >>
    IN  IF size < 4 \/ size > 49 THEN 0
        ELSE IF size <= 5 THEN row[1]
        ELSE IF size <= 8 THEN row[2]
        ELSE IF size <= 12 THEN row[3]
        ELSE row[4]

\* config.paytable[(size, symbol)] in hundredths: pay_group over the ranges
\* t1 = 5, t2 = 6..8, t3 = 9..12, t4 = 13..49
Alchemy_paytable(size, sym) ==
    LET row == CASE sym = "H1" -> << 200, 400, 800, 2000 >>
                 [] sym = "H2" -> << 100, 200, 400, 1200 >>
                 [] sym = "H3" -> << 60, 120, 250, 800 >>
                 [] sym = "H4" -> << 40, 80, 200, 600 >>
                 [] sym = "L1" -> << 25, 50, 120, 300 >>
                 [] sym = "L2" -> << 20, 40, 100, 250 >>
                 [] sym = "L3" -> << 10, 25, 60, 150 >>
                 [] sym = "L4" -> << 5, 15, 40, 100 >>
                 [] OTHER -> << 0, 0, 0, 0 >>
    IN  IF size < 5 \/ size > 49 THEN 0
        ELSE IF size = 5 THEN row[1]
        ELSE IF size <= 8 THEN row[2]
        ELSE IF size <= 12 THEN row[3]
        ELSE row[4]

\* the base-game table for both game types
Alchemy_freespin_triggers_base_table(gt, n) ==
    CASE n = 4 -> 10 [] n = 5 -> 12 [] n = 6 -> 15 [] n = 7 -> 18 [] n = 8 -> 20
      [] OTHER -> 0

Alchemy_freespin_triggers(gt, n) ==
    IF gt = basegame_type
    THEN CASE n = 4 -> 10 [] n = 5 -> 12 [] n = 6 -> 15 [] n = 7 -> 18 [] n = 8 -> 20
           [] OTHER -> 0
    ELSE CASE n = 3 -> 5 [] n = 4 -> 8 [] n = 5 -> 10 [] n = 6 -> 12 [] n = 7 -> 15
           [] n = 8 -> 18 [] OTHER -> 0

Alchemy_min_trigger(gt) == IF gt = basegame_type THEN 4 ELSE 3

\* reel strips by name
Alchemy_reels(name) ==
    CASE name = "BR0" ->
           << << "H1", "H1", "H1" >>,
              << "H1", "W",  "L1" >>,
              << "L1", "L1", "L1" >>,
              << "L2", "L3", "L4" >>,
              << "L3", "L4", "L2" >>,
              << "L4", "L2", "L3" >>,
              << "P",  "H2", "H2" >>,
              << "H2", "H2", "L2" >>,
              << "B",  "L1", "L3" >>,
              << "S",  "S",  "L2" >>,
              << "S",  "S",  "P"  >>,
              << "T",  "L3", "B"  >> >>
      [] name = "FR0" ->
           << << "L2", "L3", "L4" >>,
              << "L3", "L4", "L2" >>,
              << "L4", "L2", "L3" >>,
              << "L1", "L1", "L1" >>,
              << "L1", "L1", "S"  >>,
              << "S",  "S",  "L1" >> >>
      [] OTHER ->   \* WCAP
           << << "L1", "L1", "L1" >>,
              << "L1", "L1", "S"  >> >>


----------------------------------------------------------------------------
(* Alchemy: cluster evaluation with the multiplier grid *)

Cells(b) == { c \in (DOMAIN b) \X (0 .. 9) : c[2] \in DOMAIN b[c[1]] }

Dist(c, d) ==
    (IF c[1] >= d[1] THEN c[1] - d[1] ELSE d[1] - c[1])
    + (IF c[2] >= d[2] THEN c[2] - d[2] ELSE d[2] - c[2])

\* flood fill over 4-neighbours: the cells of M connected to S
RECURSIVE Grow(_, _)
Grow(S, M) ==
    LET T == S \cup { c \in M : \E d \in S : Dist(c, d) = 1 }
    IN  IF T = S THEN S ELSE Grow(T, M)

\* Cluster.get_clusters(board, "wild") for one symbol: the groups of cells
\* holding the symbol or a wild, each around at least one cell of the symbol
get_clusters(b, sym) ==
    LET own == { c \in Cells(b) : b[c[1]][c[2]].name = sym }
        M == own \cup { c \in Cells(b) : b[c[1]][c[2]].name \in Alchemy_special_symbols.wild }
    IN  { Grow({ c }, M) : c \in own }

\* the clusters of a set, ordered by their first cell in scan order
RECURSIVE ClusterSeq(_)
ClusterSeq(S) ==
    IF S = { } THEN << >>
    ELSE LET first(cl) == ScanOrder(cl)[1]
             c == CHOOSE x \in S : \A y \in S :
                      first(x)[1] < first(y)[1]
                      \/ (first(x)[1] = first(y)[1] /\ first(x)[2] <= first(y)[2])
         IN  << c >> \o ClusterSeq(S \ { c })

\* the win record of a cluster: the pay of its size, times the largest
\* multiplier of its cells
cluster_win(pm, sym, cl) ==
    LET mult == SetMax({ pm[c[1]][c[2]] : c \in cl })
    IN  [symbol |-> sym, clusterSize |-> Cardinality(cl),
         win |-> Alchemy_paytable(Cardinality(cl), sym) * mult,
         mult |-> mult, positions |-> ScanOrder(cl)]

RECURSIVE ClusterWinsFrom(_, _, _)
ClusterWinsFrom(b, pm, i) ==
    IF i > Len(Alchemy_pay_symbols) THEN << >>
    ELSE LET sym == Alchemy_pay_symbols[i]
             paying == { cl \in get_clusters(b, sym) :
                            Alchemy_paytable(Cardinality(cl), sym) > 0 }
             cls == ClusterSeq(paying)
         IN  [k \in DOMAIN cls |-> cluster_win(pm, sym, cls[k])]
             \o ClusterWinsFrom(b, pm, i + 1)

\* evaluate_clusters_with_grid: win_data of the board
evaluate_clusters_with_grid(b, pm) ==
    LET wins == ClusterWinsFrom(b, pm, 1)
    IN  [totalWin |-> SumWins(wins), wins |-> wins]

\* the cells of the win records
WinCells(wd) == UNION { { wd.wins[i].positions[j] : j \in DOMAIN wd.wins[i].positions }
                        : i \in DOMAIN wd.wins }

\* record_cluster_wins: the winning symbols are marked to explode
record_cluster_wins(b, wd) ==
    [reel \in DOMAIN b |-> [row \in DOMAIN b[reel] |->
        IF << reel, row >> \in WinCells(wd) THEN [b[reel][row] EXCEPT !.explode = TRUE]
        ELSE b[reel][row]]]

----------------------------------------------------------------------------
(* Alchemy: the multiplier grid (games/0_0_alchemy/game_executables.py) *)

\* reset_grid_mults
reset_grid_mults == [reel \in A_Reels |-> [row \in A_Rows |-> 1]]

\* the doubling without the min
double_cell_unclamped(pm, c) == [pm EXCEPT ![c[1]][c[2]] = @ * 2]

\* "*= 2" and the min with config.maximum_board_mult, on one cell
double_cell(pm, c) ==
    [pm EXCEPT ![c[1]][c[2]] = Min(@ * 2, maximum_board_mult)]

\* the doubling over a sequence of positions, one after the other
RECURSIVE double_positions(_, _)
double_positions(pm, positions) ==
    IF positions = << >> THEN pm
    ELSE double_positions(double_cell(pm, Head(positions)), Tail(positions))

\* the loops of update_grid_mults: every position of every win record
RECURSIVE double_wins(_, _)
double_wins(pm, wins) ==
    IF wins = << >> THEN pm
    ELSE double_wins(double_positions(pm, Head(wins).positions), Tail(wins))

update_grid_mults(pm, wd) == IF wd.totalWin > 0 THEN double_wins(pm, wd.wins) ELSE pm

update_grid_mult_event(pm) == [type |-> "updateGrid", gridMultipliers |-> pm]

\* the events of update_grid_mults
update_grid_mults_events(pm, wd) ==
    IF wd.totalWin > 0 THEN << update_grid_mult_event(update_grid_mults(pm, wd)) >> ELSE << >>

----------------------------------------------------------------------------
(* Alchemy: the feature handlers (games/0_0_alchemy/game_executables.py) *)

\* the names check_attribute("wild", "scatter", "potion", "bomb", "transform") meets
Alchemy_feature_names == UNION { Alchemy_special_symbols[k] : k \in DOMAIN Alchemy_special_symbols }

A_get_special_symbols_on_board(b) ==
    [k \in DOMAIN Alchemy_special_symbols |-> Positions(b, Alchemy_special_symbols[k])]

CellCode(c) == c[1] * Alchemy_num_rows + c[2]

mark_explode(b, c) == [b EXCEPT ![c[1]][c[2]].explode = TRUE]

wild_potion_event(b, wilds) ==
    [type |-> "wildPotion", wildsAdded |-> Len(wilds), positions |-> wilds,
     board |-> board_names(b)]

elixir_bomb_event(pm, bomb_pos, affected) ==
    [type |-> "elixirBomb", bombPosition |-> bomb_pos, affectedPositions |-> affected,
     gridMultipliers |-> pm]

symbol_transform_event(b, source, target, positions) ==
    [type |-> "symbolTransform", sourceSymbol |-> source, targetSymbol |-> target,
     transformedCount |-> Len(positions), positions |-> positions, board |-> board_names(b)]

\* a potion that may put its wilds on any cell that is not a wild
potion_outcomes_any_cell(b, potion_pos) ==
    LET valid == { c \in Cells(b) : b[c[1]][c[2]].name # "W" }
        place(T) == [reel \in DOMAIN b |-> [row \in DOMAIN b[reel] |->
                        IF << reel, row >> \in T THEN create_symbol("W") ELSE b[reel][row]]]
        codes(T) == [i \in DOMAIN ScanOrder(T) |-> CellCode(ScanOrder(T)[i])]
    IN  { [board |-> mark_explode(b, potion_pos), wilds |-> << >>, draws |-> << 0 >>] }
        \cup UNION { { [board |-> mark_explode(place(T), potion_pos), wilds |-> ScanOrder(T),
                        draws |-> << 1, n >> \o codes(T)]
                       : T \in { U \in SUBSET valid :
                                   Cardinality(U) = Min(n, Cardinality(valid)) } }
                     : n \in wild_potion_range[1] .. wild_potion_range[2] }

\* a potion whose random.sample is not taken from the seeded stream
potion_outcomes_unseeded(b, potion_pos) ==
    LET valid == { c \in Cells(b) : b[c[1]][c[2]].name \notin Alchemy_feature_names }
        place(T) == [reel \in DOMAIN b |-> [row \in DOMAIN b[reel] |->
                        IF << reel, row >> \in T THEN create_symbol("W") ELSE b[reel][row]]]
    IN  { [board |-> mark_explode(b, potion_pos), wilds |-> << >>, draws |-> << 0 >>] }
        \cup UNION { { [board |-> mark_explode(place(T), potion_pos), wilds |-> ScanOrder(T),
                        draws |-> << 1, n >>]
                       : T \in { U \in SUBSET valid :
                                   Cardinality(U) = Min(n, Cardinality(valid)) } }
                     : n \in wild_potion_range[1] .. wild_potion_range[2] }

\* a potion that may add one wild more than the range allows
potion_outcomes_one_more(b, potion_pos) ==
    LET valid == { c \in Cells(b) : b[c[1]][c[2]].name \notin Alchemy_feature_names }
        place(T) == [reel \in DOMAIN b |-> [row \in DOMAIN b[reel] |->
                        IF << reel, row >> \in T THEN create_symbol("W") ELSE b[reel][row]]]
        codes(T) == [i \in DOMAIN ScanOrder(T) |-> CellCode(ScanOrder(T)[i])]
    IN  { [board |-> mark_explode(b, potion_pos), wilds |-> << >>, draws |-> << 0 >>] }
        \cup UNION { { [board |-> mark_explode(place(T), potion_pos), wilds |-> ScanOrder(T),
                        draws |-> << 1, n >> \o codes(T)]
                       : T \in { U \in SUBSET valid :
                                   Cardinality(U) = Min(n, Cardinality(valid)) } }
                     : n \in wild_potion_range[1] .. wild_potion_range[2] + 1 }

\* one potion of apply_wild_potion: a dud, or min(num_wilds, valid) wilds on
\* sampled valid cells; the potion is marked to explode
potion_outcomes(b, potion_pos) ==
    LET valid == { c \in Cells(b) : b[c[1]][c[2]].name \notin Alchemy_feature_names }
        place(T) == [reel \in DOMAIN b |-> [row \in DOMAIN b[reel] |->
                        IF << reel, row >> \in T THEN create_symbol("W") ELSE b[reel][row]]]
        codes(T) == [i \in DOMAIN ScanOrder(T) |-> CellCode(ScanOrder(T)[i])]
    IN  { [board |-> mark_explode(b, potion_pos), wilds |-> << >>, draws |-> << 0 >>] }
        \cup UNION { { [board |-> mark_explode(place(T), potion_pos), wilds |-> ScanOrder(T),
                        draws |-> << 1, n >> \o codes(T)]
                       : T \in { U \in SUBSET valid :
                                   Cardinality(U) = Min(n, Cardinality(valid)) } }
                     : n \in wild_potion_range[1] .. wild_potion_range[2] }

RECURSIVE potion_from(_, _)
potion_from(r, positions) ==
    IF positions = << >> THEN { r }
    ELSE UNION { potion_from([board |-> o.board, wilds |-> r.wilds \o o.wilds,
                              draws |-> r.draws \o o.draws], Tail(positions))
                 : o \in potion_outcomes(r.board, Head(positions)) }

\* apply_wild_potion: the boards it can leave, the wilds it placed, its draws
apply_wild_potion(b, potion_positions) ==
    potion_from([board |-> b, wilds |-> << >>, draws |-> << >>], potion_positions)

\* the transformable symbols on the board, in the order the scan meets them
RECURSIVE FirstSeen(_, _)
FirstSeen(cells, seen) ==
    IF cells = << >> THEN << >>
    ELSE IF Head(cells) \in seen THEN FirstSeen(Tail(cells), seen)
    ELSE << Head(cells) >> \o FirstSeen(Tail(cells), seen \cup { Head(cells) })

symbols_on_board(b) ==
    LET cells == Positions(b, { transformable_symbols[i] : i \in DOMAIN transformable_symbols })
    IN  FirstSeen([i \in DOMAIN cells |-> b[cells[i][1]][cells[i][2]].name], { })

\* a transform that may pick the source symbol as its target
transform_outcomes_any_target(b, transform_pos) ==
    LET keys == symbols_on_board(b)
        available(source) ==
            transform_target_symbols
        weak(source) == SelectSeq(available(source), LAMBDA x : x \in { "H3", "H4" })
        strong(source) == SelectSeq(available(source), LAMBDA x : x \in { "H1", "H2" })
        pool(source, w) ==
            IF w = 0
            THEN (IF weak(source) # << >> THEN weak(source) ELSE available(source))
            ELSE (IF strong(source) # << >> THEN strong(source) ELSE available(source))
        changed(source, target) ==
            [reel \in DOMAIN b |-> [row \in DOMAIN b[reel] |->
                IF b[reel][row].name = source THEN create_symbol(target) ELSE b[reel][row]]]
    IN  IF keys = << >> THEN { [board |-> b, events |-> << >>, draws |-> << >>] }
        ELSE UNION { UNION { { [board |-> mark_explode(changed(keys[s], pool(keys[s], w)[t]),
                                                       transform_pos),
                                events |-> << symbol_transform_event(
                                                  changed(keys[s], pool(keys[s], w)[t]),
                                                  keys[s], pool(keys[s], w)[t],
                                                  Positions(b, { keys[s] })) >>,
                                draws |-> << s, w, t >>]
                               : t \in DOMAIN pool(keys[s], w) }
                             : w \in { 0, 1 } }
                     : s \in DOMAIN keys }

\* one transform symbol of apply_symbol_transform
transform_outcomes(b, transform_pos) ==
    LET keys == symbols_on_board(b)
        available(source) ==
            SelectSeq(transform_target_symbols, LAMBDA x : x # source)
        weak(source) == SelectSeq(available(source), LAMBDA x : x \in { "H3", "H4" })
        strong(source) == SelectSeq(available(source), LAMBDA x : x \in { "H1", "H2" })
        pool(source, w) ==
            IF w = 0
            THEN (IF weak(source) # << >> THEN weak(source) ELSE available(source))
            ELSE (IF strong(source) # << >> THEN strong(source) ELSE available(source))
        changed(source, target) ==
            [reel \in DOMAIN b |-> [row \in DOMAIN b[reel] |->
                IF b[reel][row].name = source THEN create_symbol(target) ELSE b[reel][row]]]
    IN  IF keys = << >> THEN { [board |-> b, events |-> << >>, draws |-> << >>] }
        ELSE UNION { UNION { { [board |-> mark_explode(changed(keys[s], pool(keys[s], w)[t]),
                                                       transform_pos),
                                events |-> << symbol_transform_event(
                                                  changed(keys[s], pool(keys[s], w)[t]),
                                                  keys[s], pool(keys[s], w)[t],
                                                  Positions(b, { keys[s] })) >>,
                                draws |-> << s, w, t >>]
                               : t \in DOMAIN pool(keys[s], w) }
                             : w \in { 0, 1 } }
                     : s \in DOMAIN keys }

RECURSIVE transform_from(_, _)
transform_from(r, positions) ==
    IF positions = << >> THEN { r }
    ELSE UNION { transform_from([board |-> o.board, events |-> r.events \o o.events,
                                 draws |-> r.draws \o o.draws], Tail(positions))
                 : o \in transform_outcomes(r.board, Head(positions)) }

\* apply_symbol_transform
apply_symbol_transform(b, transform_positions) ==
    transform_from([board |-> b, events |-> << >>, draws |-> << >>], transform_positions)

\* a bomb whose large explosion reaches two cells farther
bomb_radius_wide(k) ==
    IF k = 0 THEN 1 ELSE IF k = 1 THEN bomb_explosion_radius ELSE bomb_explosion_radius + 2

\* the radius of a bomb by its roll: small, the configured one, or one more
bomb_radius(k) ==
    IF k = 0 THEN 1 ELSE IF k = 1 THEN bomb_explosion_radius ELSE bomb_explosion_radius + 1

RECURSIVE explode_positions(_, _)
explode_positions(b, positions) ==
    IF positions = << >> THEN b
    ELSE explode_positions(mark_explode(b, Head(positions)), Tail(positions))

\* one bomb of apply_elixir_bomb: the cells within the radius explode and
\* their multipliers double
bomb_outcomes(b, pm, bomb_pos) ==
    { LET affected == ScanOrder({ c \in Cells(b) : Dist(c, bomb_pos) <= bomb_radius(k) })
      IN  [board |-> explode_positions(b, affected),
           pm |-> double_positions(pm, affected),
           events |-> << elixir_bomb_event(double_positions(pm, affected), bomb_pos,
                                           affected) >>,
           draws |-> << k >>]
      : k \in 0 .. 2 }

RECURSIVE bomb_from(_, _)
bomb_from(r, positions) ==
    IF positions = << >> THEN { r }
    ELSE UNION { bomb_from([board |-> o.board, pm |-> o.pm, events |-> r.events \o o.events,
                            draws |-> r.draws \o o.draws], Tail(positions))
                 : o \in bomb_outcomes(r.board, r.pm, Head(positions)) }

\* apply_elixir_bomb
apply_elixir_bomb(b, pm, bomb_positions) ==
    bomb_from([board |-> b, pm |-> pm, events |-> << >>, draws |-> << >>], bomb_positions)

\* the names a board holds at the positions, in their order
NamesAt(b, positions) ==
    [i \in DOMAIN positions |-> b[positions[i][1]][positions[i][2]].name]

\* where the symbols of the cells S are after a tumble of b: an exploding one
\* is gone, another one has fallen by the exploding cells below it
Moved(b, S) ==
    { << c[1], c[2] + Cardinality({ r \in DOMAIN b[c[1]] : r > c[2] /\ b[c[1]][r].explode }) >>
      : c \in { d \in S : ~b[d[1]][d[2]].explode } }

\* the handlers in an order that explodes before it transforms
handler_order_bomb_first == << "potion", "bomb", "transform" >>

\* the order of the "if ..._positions:" blocks of _apply_features_after_tumbles
handler_order == << "potion", "transform", "bomb" >>

\* "if potion_positions: self.apply_wild_potion(potion_positions)"
potion_block(r, given) ==
    IF given.potion = << >> THEN { r }
    ELSE { [r EXCEPT !.board = o.board,
                     !.handled = o.board,
                     !.special = [@ EXCEPT !.potion = << >>, !.wild = @ \o o.wilds],
                     !.events = @ \o (IF o.wilds # << >>
                                      THEN << wild_potion_event(o.board, o.wilds) >>
                                      ELSE << >>),
                     !.draws = @ \o o.draws,
                     !.ran = @ \o << "potion" >>,
                     !.seen = [@ EXCEPT !.potion = NamesAt(r.board, given.potion)],
                     !.remaining = @ \cup { given.potion[i] : i \in DOMAIN given.potion }]
           : o \in apply_wild_potion(r.board, given.potion) }

\* "if transform_positions: self.apply_symbol_transform(transform_positions)"
transform_block(r, given) ==
    IF given.transform = << >> THEN { r }
    ELSE { [r EXCEPT !.board = o.board,
                     !.handled = o.board,
                     !.special = [@ EXCEPT !.transform = << >>],
                     !.events = @ \o o.events,
                     !.draws = @ \o o.draws,
                     !.ran = @ \o << "transform" >>,
                     !.seen = [@ EXCEPT !.transform = NamesAt(r.board, given.transform)],
                     !.remaining = @ \cup { given.transform[i] : i \in DOMAIN given.transform }]
           : o \in apply_symbol_transform(r.board, given.transform) }

\* "if bomb_positions: self.apply_elixir_bomb(bomb_positions)" and the
\* tumble_game_board that follows it
bomb_block(r, given, t) ==
    IF given.bomb = << >> THEN { r }
    ELSE { LET tumbled == tumble_board(o.board, t, r.reel_positions, Alchemy_num_rows)
           IN  [r EXCEPT !.board = tumbled.board,
                         !.handled = o.board,
                         !.pm = o.pm,
                         !.reel_positions = tumbled.reel_positions,
                         !.removed = @ + SumOver(tumbled.removed, DOMAIN tumbled.removed),
                         !.special = A_get_special_symbols_on_board(tumbled.board),
                         !.events = @ \o o.events \o << update_grid_mult_event(o.pm),
                                                         tumble_event(tumbled.board) >>,
                         !.draws = @ \o o.draws,
                         !.ran = @ \o << "bomb" >>,
                         !.seen = [@ EXCEPT !.bomb = NamesAt(r.board, given.bomb)],
                         !.remaining =
                             Moved(o.board,
                                   @ \cup { given.bomb[i] : i \in DOMAIN given.bomb })]
           : o \in apply_elixir_bomb(r.board, r.pm, given.bomb) }

RECURSIVE blocks_from(_, _, _, _)
blocks_from(r, order, given, t) ==
    IF order = << >> THEN { r }
    ELSE UNION { blocks_from(n, Tail(order), given, t)
                 : n \in CASE Head(order) = "potion" -> potion_block(r, given)
                           [] Head(order) = "transform" -> transform_block(r, given)
                           [] OTHER -> bomb_block(r, given, t) }

\* _apply_features_after_tumbles up to its re-evaluation: the positions are
\* read from special_syms_on_board once, then the blocks run in their order
apply_features(b, pm, special, t, positions) ==
    blocks_from([board |-> b, handled |-> b, pm |-> pm, reel_positions |-> positions,
                 removed |-> 0, special |-> special, events |-> << >>, draws |-> << >>,
                 ran |-> << >>,
                 seen |-> [potion |-> << >>, transform |-> << >>, bomb |-> << >>],
                 remaining |-> { }],
                handler_order,
                [potion |-> special.potion, transform |-> special.transform,
                 bomb |-> special.bomb],
                t)

\* a re-evaluation only after a bomb
feature_applied_bomb_only(special) == special.bomb # << >>

feature_applied(special) ==
    special.potion # << >> \/ special.transform # << >> \/ special.bomb # << >>

----------------------------------------------------------------------------
(* Alchemy: the board draw *)

\* the strips of the distribution's reel_weights
Alchemy_reel_weights(crit, gt) ==
    IF gt = basegame_type THEN { "BR0" }
    ELSE IF crit.name = "wincap" THEN { "FR0", "WCAP" }
    ELSE { "FR0" }

\* the stop of the free spins that do not draw freely
Alchemy_QuietStop == 0

\* the value a draw of a strip name leaves in the stream
StripCode(name) == IF name = "BR0" THEN 0 ELSE IF name = "FR0" THEN 1 ELSE 2

Alchemy_create_board(name, stop) ==
    [reel \in A_Reels |-> [row \in A_Rows |->
        create_symbol(TableSym(Alchemy_reels(name), reel, stop + row))]]

\* draw_board: the strip and the stop, under the distribution's conditions
Alchemy_draw_board(crit, gt, live) ==
    LET cnt(name, d) == count_names(Alchemy_create_board(name, d),
                                    Alchemy_special_symbols.scatter)
        allowed(name, d) ==
            IF gt = basegame_type /\ crit.force_freegame THEN cnt(name, d) \in crit.scatter_triggers
            ELSE IF gt = basegame_type THEN cnt(name, d) < Alchemy_min_trigger(gt)
            ELSE live \/ (name = "FR0" /\ d = Alchemy_QuietStop)
    IN  UNION { { [board |-> Alchemy_create_board(name, d), reelstrip |-> name,
                   reel_positions |-> [reel \in A_Reels |-> d],
                   draws |-> << StripCode(name), d >>]
                  : d \in { x \in 0 .. Len(Alchemy_reels(name)) - 1 : allowed(name, x) } }
                : name \in Alchemy_reel_weights(crit, gt) }

\* check_fs_condition
A_check_fs_condition(special, gt, rep) ==
    Len(special.scatter) >= Alchemy_min_trigger(gt) /\ ~rep

A_Live(gt, n) ==
    Live(gt, n, Alchemy_freespin_triggers(basegame_type, Alchemy_min_trigger(basegame_type)))

\* an evaluation that doubles the grid before it pays
evaluate_step_doubled_first(b, pm, wm, triggered) ==
    LET pm2 == update_grid_mults(pm, evaluate_clusters_with_grid(b, pm))
        wd == evaluate_clusters_with_grid(b, pm2)
        wm2 == update_spinwin(wm, wd.totalWin)
    IN  [win_data |-> wd,
         board |-> record_cluster_wins(b, wd),
         win_manager |-> wm2,
         wincap_triggered |-> emit_tumble_wincap(wm2, wd, triggered),
         position_multipliers |-> pm2,
         events |-> emit_tumble_win_events(wm2, wd, triggered)
                    \o update_grid_mults_events(pm, wd)]

\* get_clusters_update_wins, emit_tumble_win_events and update_grid_mults
evaluate_step(b, pm, wm, triggered) ==
    LET wd == evaluate_clusters_with_grid(b, pm)
        wm2 == update_spinwin(wm, wd.totalWin)
    IN  [win_data |-> wd,
         board |-> record_cluster_wins(b, wd),
         win_manager |-> wm2,
         wincap_triggered |-> emit_tumble_wincap(wm2, wd, triggered),
         position_multipliers |-> update_grid_mults(pm, wd),
         events |-> emit_tumble_win_events(wm2, wd, triggered)
                    \o update_grid_mults_events(pm, wd)]

\* set_end_tumble_event
set_end_tumble_event(wm) ==
    (IF wm.spin_win > 0 THEN << set_win_event(wm) >> ELSE << >>) \o << set_total_event(wm) >>

----------------------------------------------------------------------------
(* Alchemy: run_spin and run_freespin (games/0_0_alchemy/gamestate.py) *)

\* no feature pass has run on the board
no_feature_pass ==
    [invoked |-> 0, given |-> [potion |-> << >>, transform |-> << >>, bomb |-> << >>],
     ran |-> << >>, seen |-> [potion |-> << >>, transform |-> << >>, bomb |-> << >>],
     entry |-> << >>, handled |-> << >>, events |-> << >>, evaluations |-> 0,
     remaining |-> { }, win |-> 0, tumbles |-> 0]

\* a loop that is never entered
cascade_continues_never == FALSE

\* a loop that looks at the wincap only
cascade_continues_without_win == ~wincap_triggered

\* "while win_data['totalWin'] > 0 and not wincap_triggered"
cascade_continues == win_data.totalWin > 0 /\ ~wincap_triggered

\* one pass of "while self.repeat": reset_book, draw_board, update_grid_mult_event
A_Draw ==
    /\ game = "alchemy" /\ pc = "loop" /\ repeat /\ attempt < MaxAttempts
    /\ \E r \in Seeded(Alchemy_draw_board(criteria, basegame_type, TRUE)) :
          /\ board' = r.board
          /\ reelstrip' = r.reelstrip
          /\ reel_positions' = r.reel_positions
          /\ special_syms_on_board' = A_get_special_symbols_on_board(r.board)
          /\ events' = << reveal_event(r.board, basegame_type),
                          update_grid_mult_event(reset_grid_mults) >>
          /\ rng' = Advance(r.draws)
    /\ position_multipliers' = reset_grid_mults
    /\ feature_pass' = no_feature_pass
    /\ win_manager' = reset_end_round_wins
    /\ win_data' = no_win_data
    /\ wincap_triggered' = FALSE
    /\ triggered_freegame' = FALSE
    /\ final_win' = 0
    /\ gametype' = basegame_type
    /\ fs' = 0 /\ tot_fs' = 0
    /\ repeat' = FALSE
    /\ attempt' = attempt + 1
    /\ pass' = no_pass
    /\ pc' = "a_eval"
    /\ sim_stats' = [sim_stats EXCEPT !.total_spins = @ + 1, !.base_spins = @ + 1]
    /\ UNCHANGED << workers, game, criteria, prev_events, g_vars, v_vars >>

\* the evaluation of the drawn board: get_clusters_update_wins,
\* emit_tumble_win_events, update_grid_mults
A_Evaluate ==
    /\ game = "alchemy" /\ pc = "a_eval"
    /\ \E ev \in { evaluate_step(board, position_multipliers, win_manager, wincap_triggered) } :
          /\ board' = ev.board
          /\ win_data' = ev.win_data
          /\ win_manager' = ev.win_manager
          /\ wincap_triggered' = ev.wincap_triggered
          /\ position_multipliers' = ev.position_multipliers
          /\ events' = events \o ev.events
          /\ pass' = [kind |-> "evaluate", before |-> position_multipliers,
                      after |-> ev.position_multipliers, wins |-> ev.win_data.wins,
                      removed |-> 0, iterations |-> 0]
    /\ pc' = "a_loop"
    /\ UNCHANGED << s_vars, feature_pass, game, criteria, attempt, rng, prev_events, special_syms_on_board,
                    final_win, gametype, fs, tot_fs, repeat, triggered_freegame,
                    g_vars, v_vars, t_vars >>

\* one iteration of a cascade loop: tumble_game_board, then the evaluation
A_Tumble ==
    /\ game = "alchemy" /\ pc \in { "a_loop", "a_loop2" } /\ cascade_continues
    /\ \E tb \in { tumble_board(board, Alchemy_reels(reelstrip), reel_positions,
                                Alchemy_num_rows) } :
       \E ev \in { evaluate_step(tb.board, position_multipliers, win_manager,
                                 wincap_triggered) } :
          /\ board' = ev.board
          /\ reel_positions' = tb.reel_positions
          /\ special_syms_on_board' = A_get_special_symbols_on_board(tb.board)
          /\ win_data' = ev.win_data
          /\ win_manager' = ev.win_manager
          /\ wincap_triggered' = ev.wincap_triggered
          /\ position_multipliers' = ev.position_multipliers
          /\ events' = events \o << tumble_event(tb.board) >> \o ev.events
          /\ pass' = [kind |-> "cascade", before |-> position_multipliers,
                      after |-> ev.position_multipliers, wins |-> ev.win_data.wins,
                      removed |-> SumOver(tb.removed, DOMAIN tb.removed),
                      iterations |-> pass.iterations + 1]
          /\ feature_pass' = [feature_pass EXCEPT
                                 !.remaining = Moved(board, @),
                                 !.tumbles = IF pc = "a_loop2" THEN @ + 1 ELSE @]
    /\ sim_stats' = [sim_stats EXCEPT !.total_tumbles = @ + 1]
    /\ UNCHANGED << workers, game, pc, criteria, attempt, prev_events, rng, final_win, gametype,
                    fs, tot_fs, repeat, triggered_freegame, reelstrip, g_vars, v_vars >>

\* the first cascade loop is over: _apply_features_after_tumbles unless the
\* wincap was triggered
A_Features ==
    /\ game = "alchemy" /\ pc = "a_loop" /\ ~cascade_continues
    /\ IF wincap_triggered
       THEN /\ pc' = "a_end"
            /\ UNCHANGED << board, reel_positions, special_syms_on_board, win_data,
                            win_manager, wincap_triggered, position_multipliers, events,
                            pass, rng, feature_pass, sim_stats >>
       ELSE \E f \in Seeded(Outcomes(apply_features(board, position_multipliers,
                                         special_syms_on_board, Alchemy_reels(reelstrip),
                                         reel_positions),
                                     A_Live(gametype, fs))) :
            LET again == feature_applied(special_syms_on_board)
                log == [invoked |-> feature_pass.invoked + 1,
                        given |-> [potion |-> special_syms_on_board.potion,
                                   transform |-> special_syms_on_board.transform,
                                   bomb |-> special_syms_on_board.bomb],
                        ran |-> f.ran, seen |-> f.seen, entry |-> board,
                        handled |-> f.handled, events |-> f.events,
                        evaluations |-> IF again THEN 1 ELSE 0,
                        remaining |-> f.remaining, win |-> 0, tumbles |-> 0]
            IN  IF again
                THEN \E ev \in { evaluate_step(f.board, f.pm, win_manager,
                                               wincap_triggered) } :
                       /\ board' = ev.board
                       /\ sim_stats' = track_features(sim_stats, special_syms_on_board)
                       /\ win_data' = ev.win_data
                       /\ win_manager' = ev.win_manager
                       /\ wincap_triggered' = ev.wincap_triggered
                       /\ position_multipliers' = ev.position_multipliers
                       /\ events' = events \o f.events \o ev.events
                       /\ pass' = [kind |-> "features", before |-> f.pm,
                                   after |-> ev.position_multipliers,
                                   wins |-> ev.win_data.wins,
                                   removed |-> f.removed, iterations |-> pass.iterations]
                       /\ feature_pass' = [log EXCEPT !.win = ev.win_data.totalWin]
                       /\ reel_positions' = f.reel_positions
                       /\ special_syms_on_board' = f.special
                       /\ rng' = Advance(f.draws)
                       /\ pc' = "a_loop2"
                ELSE /\ board' = f.board
                     /\ sim_stats' = track_features(sim_stats, special_syms_on_board)
                     /\ position_multipliers' = f.pm
                     /\ events' = events \o f.events
                     /\ feature_pass' = log
                     /\ reel_positions' = f.reel_positions
                     /\ special_syms_on_board' = f.special
                     /\ rng' = Advance(f.draws)
                     /\ pc' = "a_end"
                     /\ UNCHANGED << win_data, win_manager, wincap_triggered, pass >>
    /\ UNCHANGED << workers, game, criteria, attempt, prev_events, final_win, gametype, fs, tot_fs,
                    repeat, triggered_freegame, reelstrip, g_vars, v_vars >>

\* the end of a spin: set_end_tumble_event, update_gametype_wins, and the
\* free spin trigger (base game) or retrigger (free game)
A_EndSpin ==
    /\ game = "alchemy"
    /\ \/ pc = "a_end"
       \/ pc = "a_loop2" /\ ~cascade_continues
    /\ LET cond == A_check_fs_condition(special_syms_on_board, gametype, repeat)
           count == Len(special_syms_on_board.scatter)
           award == Alchemy_freespin_triggers(gametype, count)
           ended == events \o set_end_tumble_event(win_manager)
           wm == update_gametype_wins(win_manager, gametype)
       IN  IF gametype = basegame_type
           THEN IF cond /\ criteria.force_freegame
                THEN /\ tot_fs' = award
                     /\ sim_stats' = [sim_stats EXCEPT !.total_freespin_triggers = @ + 1]
                     /\ events' = ended \o << fs_trigger_event(award,
                                                  special_syms_on_board.scatter, gametype) >>
                     /\ triggered_freegame' = TRUE
                     /\ fs' = 0
                     /\ gametype' = freegame_type
                     /\ win_manager' = reset_spin_win(wm)
                     /\ pc' = "a_fs_loop"
                     /\ UNCHANGED repeat
                ELSE /\ repeat' = (repeat \/ cond)
                     /\ events' = ended
                     /\ win_manager' = wm
                     /\ pc' = "final"
                     /\ UNCHANGED << tot_fs, triggered_freegame, fs, gametype, sim_stats >>
           ELSE /\ tot_fs' = IF cond THEN tot_fs + award ELSE tot_fs
                /\ sim_stats' = IF cond THEN [sim_stats EXCEPT !.retriggers = @ + 1]
                                ELSE sim_stats
                /\ events' = ended \o
                       (IF cond
                        THEN << fs_trigger_event(tot_fs + award,
                                    special_syms_on_board.scatter, gametype) >>
                        ELSE << >>)
                /\ win_manager' = wm
                /\ pc' = "a_fs_loop"
                /\ UNCHANGED << repeat, triggered_freegame, fs, gametype >>
    /\ UNCHANGED << workers, game, criteria, attempt, rng, prev_events, board,
                    special_syms_on_board, win_data, wincap_triggered, final_win,
                    g_vars, a_vars, v_vars, t_vars, pass >>

\* one pass of "while self.fs < self.tot_fs": update_freespin, draw_board,
\* update_grid_mult_event
A_FsDraw ==
    /\ game = "alchemy" /\ pc = "a_fs_loop" /\ fs < tot_fs
    /\ \E r \in Seeded(Outcomes(Alchemy_draw_board(criteria, freegame_type,
                                                   A_Live(freegame_type, fs + 1)),
                                A_Live(freegame_type, fs + 1))) :
          /\ board' = r.board
          /\ reelstrip' = r.reelstrip
          /\ reel_positions' = r.reel_positions
          /\ special_syms_on_board' = A_get_special_symbols_on_board(r.board)
          /\ events' = events \o << update_freespin_event(fs + 1, tot_fs),
                                    reveal_event(r.board, freegame_type),
                                    update_grid_mult_event(position_multipliers) >>
          /\ rng' = Advance(r.draws)
    /\ fs' = fs + 1
    /\ win_manager' = reset_spin_win(win_manager)
    /\ win_data' = no_win_data
    /\ pass' = [no_pass EXCEPT !.before = position_multipliers,
                               !.after = position_multipliers]
    /\ feature_pass' = no_feature_pass
    /\ pc' = "a_eval"
    /\ sim_stats' = [sim_stats EXCEPT !.total_freespins_played = @ + 1]
    /\ UNCHANGED << workers, game, criteria, attempt, prev_events, wincap_triggered, final_win,
                    gametype, tot_fs, repeat, triggered_freegame, g_vars,
                    position_multipliers, v_vars >>

\* the free spins are played: end_freespin
A_FsEnd ==
    /\ game = "alchemy" /\ pc = "a_fs_loop" /\ fs >= tot_fs
    /\ events' = events \o << freespin_end_event(win_manager) >>
    /\ pc' = "final"
    /\ UNCHANGED << s_vars, game, criteria, attempt, rng, prev_events, board,
                    special_syms_on_board, win_data, win_manager, wincap_triggered,
                    final_win, gametype, fs, tot_fs, repeat, triggered_freegame,
                    g_vars, a_vars, v_vars, t_vars, pass >>

A_Next == A_Draw \/ A_Evaluate \/ A_Tumble \/ A_Features \/ A_EndSpin \/ A_FsDraw \/ A_FsEnd

----------------------------------------------------------------------------
(* Volley Siege: configuration and scatter pays *)

\* self.n_rows and self.n_cols of the multiplier grid
n_rows == 5

n_cols == 6

V_Reels == 0 .. n_cols - 1

V_Rows == 0 .. n_rows - 1

Volley_special_symbols == [scatter |-> { "S" }]

Volley_pay_symbols == << "H1", "H2", "L1", "L2", "L3", "L4" >>

\* the smallest count of a symbol that pays
Volley_min_count == 8

\* config.paytable[(count, symbol)] in hundredths
Volley_paytable(count, sym) ==
    LET row == CASE sym = "H1" -> << 1000, 2500, 5000 >>
                 [] sym = "H2" -> << 500, 1000, 2500 >>
                 [] sym = "L1" -> << 150, 300, 1000 >>
                 [] sym = "L2" -> << 100, 200, 800 >>
                 [] sym = "L3" -> << 50, 150, 500 >>
                 [] sym = "L4" -> << 25, 75, 200 >>
                 [] OTHER -> << 0, 0, 0 >>
    IN  IF count < Volley_min_count THEN 0
        ELSE IF count <= 9 THEN row[1]
        ELSE IF count <= 11 THEN row[2]
        ELSE row[3]

\* the scatter counts that trigger free spins
Volley_min_trigger(gt) == IF gt = basegame_type THEN 4 ELSE 3

\* the base-game table of the specification: trigger count -> awarded spins
Volley_base_freespin_triggers(n) == CASE n = 4 -> 10 [] n = 5 -> 12 [] OTHER -> 0

\* config.freespin_triggers of the free game (update_fs_retrigger_amt)
Volley_freespin_triggers(n) == IF n >= 3 THEN 5 ELSE 0

\* the cap the configuration sets on a cell of the multiplier grid
Volley_maximum_multiplier == 64

Volley_reels(name) ==
    CASE name = "BR0" ->
           << << "H1", "H2", "L1", "H1", "L3", "L4" >>,
              << "H2", "L1", "L2", "L3", "L4", "H1" >>,
              << "L1", "L2", "L3", "L4", "H1", "H2" >>,
              << "L2", "L3", "L4", "H1", "H2", "L1" >>,
              << "L3", "L4", "H1", "H2", "L1", "L2" >>,
              << "L1", "L1", "L1", "L1", "H1", "H2" >>,
              << "S",  "L1", "S",  "L4", "S",  "H2" >>,
              << "S",  "H1", "L2", "L3", "L4", "L1" >> >>
      [] OTHER ->   \* FR0
           << << "L1", "L1", "L1", "L1", "S",  "H2" >>,
              << "L1", "L1", "L1", "L1", "H2", "H1" >>,
              << "H1", "H2", "L2", "L3", "L4", "L2" >>,
              << "H2", "L2", "L3", "L4", "H1", "L3" >>,
              << "L2", "L3", "L4", "H1", "H2", "L4" >>,
              << "S",  "H1", "L2", "L2", "S",  "L3" >> >>

\* Scatter.get_scatterpay_wins: a symbol pays by its count anywhere on the board
RECURSIVE ScatterWinsFrom(_, _)
ScatterWinsFrom(b, i) ==
    IF i > Len(Volley_pay_symbols) THEN << >>
    ELSE LET sym == Volley_pay_symbols[i]
             positions == Positions(b, { sym })
         IN  (IF Volley_paytable(Len(positions), sym) > 0
              THEN << [symbol |-> sym, count |-> Len(positions),
                       win |-> Volley_paytable(Len(positions), sym),
                       positions |-> positions] >>
              ELSE << >>)
             \o ScatterWinsFrom(b, i + 1)

\* Scatter.record_scatter_wins: the winning symbols are marked to explode
record_scatter_wins(b, wd) == record_cluster_wins(b, wd)

get_scatterpay_wins(b) ==
    LET wins == ScatterWinsFrom(b, 1)
    IN  [totalWin |-> SumWins(wins), wins |-> wins]

----------------------------------------------------------------------------
(* Volley Siege: the sticky multiplier grid (games/0_0_volley_siege/gamestate.py) *)

\* init_multiplier_grid
init_multiplier_grid == [r \in V_Rows |-> [c \in V_Reels |-> 1]]

\* "self.multiplier_grid[r][c] *= 2" for one position (reel, row)
double_grid_cell(grid, pos) == [grid EXCEPT ![pos[2]][pos[1]] = @ * 2]

RECURSIVE double_grid_positions(_, _)
double_grid_positions(grid, positions) ==
    IF positions = << >> THEN grid
    ELSE double_grid_positions(double_grid_cell(grid, Head(positions)), Tail(positions))

\* a doubling that starts from a fresh grid
update_cell_multipliers_fresh(grid, wins) ==
    IF wins = << >> THEN init_multiplier_grid
    ELSE double_grid_positions(init_multiplier_grid, Head(wins).positions)

\* update_cell_multipliers: every position of every win record
RECURSIVE update_cell_multipliers(_, _)
update_cell_multipliers(grid, wins) ==
    IF wins = << >> THEN grid
    ELSE update_cell_multipliers(double_grid_positions(grid, Head(wins).positions), Tail(wins))

RECURSIVE ActiveSum(_, _)
ActiveSum(grid, cells) ==
    IF cells = { } THEN 0
    ELSE LET c == CHOOSE x \in cells : TRUE
         IN  (IF grid[c[1]][c[2]] > 1 THEN grid[c[1]][c[2]] ELSE 0)
             + ActiveSum(grid, cells \ { c })

\* max(1, raw_sum): the sum of the multipliers above 1
board_mult(grid) == Max(1, ActiveSum(grid, V_Rows \X V_Reels))

\* the event of emit_board_multiplier_info; its multiplierMap is the grid
\* object itself, not a copy
board_multiplier_info(wd, grid) ==
    [type |-> "boardMultiplierInfo", tumbleWin |-> wd.totalWin, boardMult |-> board_mult(grid),
     totalWin |-> wd.totalWin, multiplierMap |-> "self.multiplier_grid"]

----------------------------------------------------------------------------
(* Volley Siege: run_spin and run_freespin *)

V_get_special_symbols_on_board(b) ==
    [k \in DOMAIN Volley_special_symbols |-> Positions(b, Volley_special_symbols[k])]

\* Volley's set_end_tumble_event: the spin win is multiplied by the board
\* multiplier, then the closing events
V_set_end_tumble_event(wm, grid) ==
    LET base_tumble_win == wm.spin_win
        wm2 == IF board_mult(grid) > 1
               THEN set_spin_win(wm, base_tumble_win * board_mult(grid))
               ELSE wm
    IN  [win_manager |-> wm2,
         events |-> (IF board_mult(grid) > 1 /\ wm2.spin_win > 0
                     THEN << [type |-> "boardMultiplierInfo",
                              tumbleWin |-> Min(base_tumble_win, wincap),
                              boardMult |-> board_mult(grid),
                              totalWin |-> Min(wm2.spin_win, wincap),
                              multiplierMap |-> "self.multiplier_grid"],
                             update_tumble_win_event(wm2) >>
                     ELSE << >>)
                    \o (IF wm2.spin_win > 0 THEN << set_win_event(wm2) >> ELSE << >>)
                    \o << set_total_event(wm2) >>]

\* the stop of the free spins that do not draw freely
Volley_QuietStop == 0

Volley_reel_weights(gt) == IF gt = basegame_type THEN "BR0" ELSE "FR0"

Volley_create_board(name, stop) ==
    [reel \in V_Reels |-> [row \in V_Rows |->
        create_symbol(TableSym(Volley_reels(name), reel, stop + row))]]

\* draw_board under the distribution's conditions
Volley_draw_board(crit, gt, live) ==
    LET name == Volley_reel_weights(gt)
        cnt(d) == count_names(Volley_create_board(name, d), Volley_special_symbols.scatter)
        allowed(d) ==
            IF gt = basegame_type /\ crit.force_freegame THEN cnt(d) \in crit.scatter_triggers
            ELSE IF gt = basegame_type THEN cnt(d) < Volley_min_trigger(gt)
            ELSE live \/ d = Volley_QuietStop
    IN  { [board |-> Volley_create_board(name, d), reelstrip |-> name,
           reel_positions |-> [reel \in V_Reels |-> d], draws |-> << d >>]
          : d \in { x \in 0 .. Len(Volley_reels(name)) - 1 : allowed(x) } }

V_check_fs_condition(special, gt, rep) ==
    Len(special.scatter) >= Volley_min_trigger(gt) /\ ~rep

V_Live(gt, n) == Live(gt, n, Volley_min_trigger(basegame_type) * 2)

\* update_freespin_amount: two free spins for every scatter
update_freespin_amount(special) == Len(special.scatter) * 2

\* get_scatterpays_update_wins, the multiplier update of a winning
\* evaluation with its event, and emit_tumble_win_events
V_evaluate_step(b, grid, wm, triggered) ==
    LET wd == get_scatterpay_wins(b)
        wm2 == update_spinwin(wm, wd.totalWin)
        grid2 == IF wd.totalWin > 0 THEN update_cell_multipliers(grid, wd.wins) ELSE grid
    IN  [win_data |-> wd,
         board |-> record_scatter_wins(b, wd),
         win_manager |-> wm2,
         wincap_triggered |-> emit_tumble_wincap(wm2, wd, triggered),
         multiplier_grid |-> grid2,
         events |-> (IF wd.totalWin > 0 THEN << board_multiplier_info(wd, grid2) >>
                     ELSE << >>)
                    \o emit_tumble_win_events(wm2, wd, triggered)]

\* one pass of "while self.repeat": reset_book, init_multiplier_grid, draw_board
V_Draw ==
    /\ game = "volley" /\ pc = "loop" /\ repeat /\ attempt < MaxAttempts
    /\ \E r \in Seeded(Volley_draw_board(criteria, basegame_type, TRUE)) :
          /\ board' = r.board
          /\ reelstrip' = r.reelstrip
          /\ reel_positions' = r.reel_positions
          /\ special_syms_on_board' = V_get_special_symbols_on_board(r.board)
          /\ events' = << reveal_event(r.board, basegame_type) >>
          /\ rng' = Advance(r.draws)
    /\ multiplier_grid' = init_multiplier_grid
    /\ win_manager' = reset_end_round_wins
    /\ win_data' = no_win_data
    /\ wincap_triggered' = FALSE
    /\ triggered_freegame' = FALSE
    /\ final_win' = 0
    /\ gametype' = basegame_type
    /\ fs' = 0 /\ tot_fs' = 0
    /\ repeat' = FALSE
    /\ attempt' = attempt + 1
    /\ pass' = no_pass
    /\ pc' = "v_eval"
    /\ UNCHANGED << s_vars, game, criteria, prev_events, g_vars, a_vars >>

\* the evaluation of the drawn board
V_Evaluate ==
    /\ game = "volley" /\ pc = "v_eval"
    /\ \E ev \in { V_evaluate_step(board, multiplier_grid, win_manager, wincap_triggered) } :
          /\ board' = ev.board
          /\ win_data' = ev.win_data
          /\ win_manager' = ev.win_manager
          /\ wincap_triggered' = ev.wincap_triggered
          /\ multiplier_grid' = ev.multiplier_grid
          /\ events' = events \o ev.events
          /\ pass' = [kind |-> "evaluate", before |-> multiplier_grid,
                      after |-> ev.multiplier_grid, wins |-> ev.win_data.wins,
                      removed |-> 0, iterations |-> 0]
    /\ pc' = "v_loop"
    /\ UNCHANGED << s_vars, game, criteria, attempt, rng, prev_events, special_syms_on_board,
                    final_win, gametype, fs, tot_fs, repeat, triggered_freegame,
                    g_vars, a_vars, t_vars >>

\* one iteration of the tumble loop
V_Tumble ==
    /\ game = "volley" /\ pc = "v_loop" /\ cascade_continues
    /\ \E tb \in { tumble_board(board, Volley_reels(reelstrip), reel_positions, n_rows) } :
       \E ev \in { V_evaluate_step(tb.board, multiplier_grid, win_manager,
                                   wincap_triggered) } :
          /\ board' = ev.board
          /\ reel_positions' = tb.reel_positions
          /\ special_syms_on_board' = V_get_special_symbols_on_board(tb.board)
          /\ win_data' = ev.win_data
          /\ win_manager' = ev.win_manager
          /\ wincap_triggered' = ev.wincap_triggered
          /\ multiplier_grid' = ev.multiplier_grid
          /\ events' = events \o << tumble_event(tb.board) >> \o ev.events
          /\ pass' = [kind |-> "cascade", before |-> multiplier_grid,
                      after |-> ev.multiplier_grid, wins |-> ev.win_data.wins,
                      removed |-> SumOver(tb.removed, DOMAIN tb.removed),
                      iterations |-> pass.iterations + 1]
    /\ UNCHANGED << s_vars, game, pc, criteria, attempt, prev_events, rng, final_win, gametype,
                    fs, tot_fs, repeat, triggered_freegame, reelstrip, g_vars, a_vars >>

\* the end of a spin: set_end_tumble_event, update_gametype_wins, and the
\* free spin trigger (base game) or retrigger (free game)
V_EndSpin ==
    /\ game = "volley" /\ pc = "v_loop" /\ ~cascade_continues
    /\ \E e \in { V_set_end_tumble_event(win_manager, multiplier_grid) } :
       LET cond == V_check_fs_condition(special_syms_on_board, gametype, repeat)
           count == Len(special_syms_on_board.scatter)
           wm == update_gametype_wins(e.win_manager, gametype)
       IN  IF gametype = basegame_type
           THEN IF cond /\ criteria.force_freegame
                THEN /\ tot_fs' = update_freespin_amount(special_syms_on_board)
                     /\ events' = events \o e.events \o
                            << fs_trigger_event(update_freespin_amount(special_syms_on_board),
                                                special_syms_on_board.scatter, gametype) >>
                     /\ triggered_freegame' = TRUE
                     /\ fs' = 0
                     /\ gametype' = freegame_type
                     /\ win_manager' = reset_spin_win(wm)
                     /\ pc' = "v_fs_loop"
                     /\ UNCHANGED repeat
                ELSE /\ repeat' = (repeat \/ cond)
                     /\ events' = events \o e.events
                     /\ win_manager' = wm
                     /\ pc' = "final"
                     /\ UNCHANGED << tot_fs, triggered_freegame, fs, gametype >>
           ELSE /\ tot_fs' = IF cond THEN tot_fs + Volley_freespin_triggers(count) ELSE tot_fs
                /\ events' = events \o e.events \o
                       (IF cond
                        THEN << fs_trigger_event(tot_fs + Volley_freespin_triggers(count),
                                    special_syms_on_board.scatter, gametype) >>
                        ELSE << >>)
                /\ win_manager' = wm
                /\ pc' = "v_fs_loop"
                /\ UNCHANGED << repeat, triggered_freegame, fs, gametype >>
    /\ UNCHANGED << s_vars, game, criteria, attempt, rng, prev_events, board,
                    special_syms_on_board, win_data, wincap_triggered, final_win,
                    g_vars, a_vars, v_vars, t_vars, pass >>

\* one pass of "while self.fs < self.tot_fs": update_freespin, draw_board; the
\* multiplier grid is kept
V_FsDraw ==
    /\ game = "volley" /\ pc = "v_fs_loop" /\ fs < tot_fs
    /\ \E r \in Seeded(Outcomes(Volley_draw_board(criteria, freegame_type,
                                                  V_Live(freegame_type, fs + 1)),
                                V_Live(freegame_type, fs + 1))) :
          /\ board' = r.board
          /\ reelstrip' = r.reelstrip
          /\ reel_positions' = r.reel_positions
          /\ special_syms_on_board' = V_get_special_symbols_on_board(r.board)
          /\ events' = events \o << update_freespin_event(fs + 1, tot_fs),
                                    reveal_event(r.board, freegame_type) >>
          /\ rng' = Advance(r.draws)
    /\ fs' = fs + 1
    /\ win_manager' = reset_spin_win(win_manager)
    /\ win_data' = no_win_data
    /\ pass' = [no_pass EXCEPT !.before = multiplier_grid, !.after = multiplier_grid]
    /\ pc' = "v_eval"
    /\ UNCHANGED << s_vars, game, criteria, attempt, prev_events, wincap_triggered, final_win,
                    gametype, tot_fs, repeat, triggered_freegame, g_vars, a_vars, v_vars >>

\* the free spins are played: end_freespin
V_FsEnd ==
    /\ game = "volley" /\ pc = "v_fs_loop" /\ fs >= tot_fs
    /\ events' = events \o << freespin_end_event(win_manager) >>
    /\ pc' = "final"
    /\ UNCHANGED << s_vars, game, criteria, attempt, rng, prev_events, board,
                    special_syms_on_board, win_data, win_manager, wincap_triggered,
                    final_win, gametype, fs, tot_fs, repeat, triggered_freegame,
                    g_vars, a_vars, v_vars, t_vars, pass >>

V_Next == V_Draw \/ V_Evaluate \/ V_Tumble \/ V_EndSpin \/ V_FsDraw \/ V_FsEnd

----------------------------------------------------------------------------
(* The simulations *)

\* the distribution conditions of Guillotine's bet modes (win_criteria -1: none)
Guillotine_criteria ==
    { [betmode |-> "base", name |-> "basegame", win_criteria |-> -1,
       force_freegame |-> FALSE, force_wincap |-> FALSE, scatter_triggers |-> { }],
      [betmode |-> "fs3", name |-> "freegame", win_criteria |-> -1,
       force_freegame |-> TRUE, force_wincap |-> FALSE, scatter_triggers |-> { 3 }],
      [betmode |-> "fs4", name |-> "freegame", win_criteria |-> -1,
       force_freegame |-> TRUE, force_wincap |-> FALSE, scatter_triggers |-> { 4 }],
      [betmode |-> "fs5", name |-> "freegame", win_criteria |-> -1,
       force_freegame |-> TRUE, force_wincap |-> FALSE, scatter_triggers |-> { 5 }] }

\* the distribution conditions of Alchemy's base bet mode
Alchemy_criteria ==
    { [betmode |-> "base", name |-> "wincap", win_criteria |-> Alchemy_wincap,
       force_freegame |-> TRUE, force_wincap |-> TRUE, scatter_triggers |-> { 4, 5 }],
      [betmode |-> "base", name |-> "freegame", win_criteria |-> -1,
       force_freegame |-> TRUE, force_wincap |-> FALSE, scatter_triggers |-> { 4, 5 }],
      [betmode |-> "base", name |-> "0", win_criteria |-> 0,
       force_freegame |-> FALSE, force_wincap |-> FALSE, scatter_triggers |-> { }],
      [betmode |-> "base", name |-> "basegame", win_criteria |-> -1,
       force_freegame |-> FALSE, force_wincap |-> FALSE, scatter_triggers |-> { }] }

\* the distribution conditions of Volley Siege
Volley_criteria ==
    { [betmode |-> "base", name |-> "freegame", win_criteria |-> -1,
       force_freegame |-> TRUE, force_wincap |-> FALSE, scatter_triggers |-> { 4 }],
      [betmode |-> "base", name |-> "basegame", win_criteria |-> -1,
       force_freegame |-> FALSE, force_wincap |-> FALSE, scatter_triggers |-> { }] }

Simulations ==
    { [game |-> "guillotine", criteria |-> c] : c \in Guillotine_criteria }
    \cup { [game |-> "alchemy", criteria |-> c] : c \in Alchemy_criteria }
    \cup { [game |-> "volley", criteria |-> c] : c \in Volley_criteria }

\* the state after construction, for one of the simulations `sims`; `record`
\* says whether the random stream keeps its values for a second run
Start(sims, record) ==
    /\ \E sim \in sims : game = sim.game /\ criteria = sim.criteria
    /\ pc = "start"
    /\ attempt = 0
    /\ rng = [log |-> << >>, pos |-> 0, replay |-> FALSE, record |-> record]
    /\ prev_events = << >>
    /\ board = << >>
    /\ special_syms_on_board = << >>
    /\ win_data = no_win_data
    /\ win_manager = reset_end_round_wins
    /\ wincap_triggered = FALSE
    /\ final_win = 0
    /\ gametype = basegame_type
    /\ fs = 0 /\ tot_fs = 0
    /\ repeat = FALSE
    /\ triggered_freegame = FALSE
    /\ events = << >>
    /\ reel_multipliers = << >>
    /\ guillotine_resolved = FALSE
    /\ wild_capability = << >>
    /\ fs_trigger_count = 0
    /\ resolution = << >>
    /\ position_multipliers = << >>
    /\ feature_pass = no_feature_pass
    /\ multiplier_grid = << >>
    /\ pass = no_pass
    /\ reel_positions = << >>
    /\ reelstrip = ""
    /\ sim_stats = SimulationStats_reset
    /\ workers = << >>

Init == Start(Simulations, FALSE)

Next == RunSpin \/ ImprintWins \/ Finalize \/ G_Next \/ A_Next \/ V_Next

Spec == Init /\ [][Next]_vars

\* the episodes of Guillotine alone
GuillotineSimulations == { sim \in Simulations : sim.game = "guillotine" }

GuillotineInit == Start(GuillotineSimulations, FALSE)

GuillotineNext == RunSpin \/ ImprintWins \/ Finalize \/ G_Next

GuillotineSpec == GuillotineInit /\ [][GuillotineNext]_vars

\* Guillotine's base bet mode with a distribution that lets the free spins
\* start from the base game on 3, 4 or 5 scatters (the distributions of the
\* configuration enter the free spins under the bet modes fs3, fs4 and fs5 only)
TierSimulations ==
    { [game |-> "guillotine",
       criteria |-> [betmode |-> "base", name |-> "freegame", win_criteria |-> -1,
                     force_freegame |-> TRUE, force_wincap |-> FALSE,
                     scatter_triggers |-> { 3, 4, 5 }]] }

TierInit == Start(TierSimulations, FALSE)

TierSpec == TierInit /\ [][GuillotineNext]_vars

\* The three handlers of Alchemy's feature pass on settled boards, one step
\* per "if ..._positions:" block of _apply_features_after_tumbles

\* the columns a settled board can show on a reel
HandlerColumns(reel) ==
    CASE reel = 0 -> { << "P", "L1", "S" >>, << "T", "L1", "L2" >>, << "B", "L1", "H1" >> }
      [] reel = 1 -> { << "B", "L1", "W" >>, << "L2", "T", "H1" >>, << "L2", "P", "L1" >> }
      [] OTHER -> { << "L2", "L2", "L1" >>, << "S", "H1", "B" >> }

\* the value every cell of the grid has when the pass starts
HandlerGridValues == { 1, 32 }

HandlerInit ==
    /\ game = "alchemy"
    /\ criteria = [betmode |-> "base", name |-> "basegame", win_criteria |-> -1,
                   force_freegame |-> FALSE, force_wincap |-> FALSE,
                   scatter_triggers |-> { }]
    /\ pc = "h_potion"
    /\ \E cols \in [A_Reels -> UNION { HandlerColumns(reel) : reel \in A_Reels }] :
          /\ \A reel \in A_Reels : cols[reel] \in HandlerColumns(reel)
          /\ board = [reel \in A_Reels |-> [row \in A_Rows |->
                          create_symbol(cols[reel][row + 1])]]
    /\ special_syms_on_board = A_get_special_symbols_on_board(board)
    /\ \E v \in HandlerGridValues :
          position_multipliers = [reel \in A_Reels |-> [row \in A_Rows |-> v]]
    /\ feature_pass = [no_feature_pass EXCEPT
                          !.invoked = 1,
                          !.given = [potion |-> special_syms_on_board.potion,
                                     transform |-> special_syms_on_board.transform,
                                     bomb |-> special_syms_on_board.bomb]]
    /\ pass = no_pass
    /\ attempt = 0
    /\ rng = [log |-> << >>, pos |-> 0, replay |-> FALSE, record |-> FALSE]
    /\ prev_events = << >>
    /\ win_data = no_win_data
    /\ win_manager = reset_end_round_wins
    /\ wincap_triggered = FALSE
    /\ final_win = 0
    /\ gametype = basegame_type
    /\ fs = 0 /\ tot_fs = 0
    /\ repeat = FALSE
    /\ triggered_freegame = FALSE
    /\ events = << >>
    /\ reel_multipliers = << >>
    /\ guillotine_resolved = FALSE
    /\ wild_capability = << >>
    /\ fs_trigger_count = 0
    /\ resolution = << >>
    /\ multiplier_grid = << >>
    /\ reel_positions = << >>
    /\ reelstrip = ""
    /\ sim_stats = SimulationStats_reset
    /\ workers = << >>

\* what a step of the pass leaves alone
HandlerFrame ==
    UNCHANGED << s_vars, game, criteria, attempt, rng, prev_events, win_data, win_manager,
                 wincap_triggered, final_win, gametype, fs, tot_fs, repeat,
                 triggered_freegame, g_vars, v_vars, t_vars >>

\* "if potion_positions: self.apply_wild_potion(potion_positions)"
WildPotionStep ==
    /\ game = "alchemy" /\ pc = "h_potion"
    /\ IF feature_pass.given.potion = << >>
       THEN UNCHANGED << board, special_syms_on_board, events, feature_pass >>
       ELSE \E o \in apply_wild_potion(board, feature_pass.given.potion) :
              /\ board' = o.board
              /\ special_syms_on_board' =
                     [special_syms_on_board EXCEPT !.potion = << >>, !.wild = @ \o o.wilds]
              /\ events' = events \o (IF o.wilds # << >>
                                       THEN << wild_potion_event(o.board, o.wilds) >>
                                       ELSE << >>)
              /\ feature_pass' = [feature_pass EXCEPT !.ran = @ \o << "potion" >>,
                                                      !.entry = board,
                                                      !.handled = o.board]
    /\ pc' = "h_transform"
    /\ UNCHANGED << position_multipliers, pass >>
    /\ HandlerFrame

\* "if transform_positions: self.apply_symbol_transform(transform_positions)"
SymbolTransformStep ==
    /\ game = "alchemy" /\ pc = "h_transform"
    /\ IF feature_pass.given.transform = << >>
       THEN UNCHANGED << board, special_syms_on_board, events, feature_pass >>
       ELSE \E o \in apply_symbol_transform(board, feature_pass.given.transform) :
              /\ board' = o.board
              /\ special_syms_on_board' = [special_syms_on_board EXCEPT !.transform = << >>]
              /\ events' = events \o o.events
              /\ feature_pass' = [feature_pass EXCEPT !.ran = @ \o << "transform" >>,
                                                      !.entry = board,
                                                      !.handled = o.board,
                                                      !.events = o.events]
    /\ pc' = "h_bomb"
    /\ UNCHANGED << position_multipliers, pass >>
    /\ HandlerFrame

\* "if bomb_positions: self.apply_elixir_bomb(bomb_positions)", up to the
\* tumble that follows the handler
ElixirBombStep ==
    /\ game = "alchemy" /\ pc = "h_bomb"
    /\ IF feature_pass.given.bomb = << >>
       THEN UNCHANGED << board, special_syms_on_board, events, feature_pass,
                         position_multipliers, pass >>
       ELSE \E o \in apply_elixir_bomb(board, position_multipliers,
                                        feature_pass.given.bomb) :
              /\ board' = o.board
              /\ position_multipliers' = o.pm
              /\ special_syms_on_board' = [special_syms_on_board EXCEPT !.bomb = << >>]
              /\ events' = events \o o.events \o << update_grid_mult_event(o.pm) >>
              /\ feature_pass' = [feature_pass EXCEPT !.ran = @ \o << "bomb" >>,
                                                      !.entry = board,
                                                      !.handled = o.board,
                                                      !.events = o.events]
              /\ pass' = [no_pass EXCEPT !.kind = "bomb",
                                         !.before = position_multipliers,
                                         !.after = o.pm]
    /\ pc' = "h_done"
    /\ HandlerFrame

HandlerNext == WildPotionStep \/ SymbolTransformStep \/ ElixirBombStep

HandlerSpec == HandlerInit /\ [][HandlerNext]_vars

\* GameStateOverride.run_spin called with an external state object, as
\* verify_logic.py calls it: the state has fs_trigger_count 5, the engine has
\* no bet mode, and engine.reels is a list of strips, one per reel, so that
\* draw_board takes _draw_from_manual_reels

\* the strips put into engine.reels
manual_reels(reel) ==
    CASE reel = 0 -> << "G", "H1", "L1", "L2", "L3" >>
      [] reel = 2 -> << "G", "L2", "H2", "L1", "L4" >>
      [] OTHER -> << "L1", "L2", "H1", "L3", "L4" >>

\* how many stops of every strip are drawn
ManualStops == 2

\* _draw_from_manual_reels: a stop per reel, the window below it with
\* wrap-around, then _ensure_guillotine_symbol
draw_from_manual_reels(guaranteed_g) ==
    UNION { { [board |-> e.board, reel_positions |-> stops]
              : e \in ensure_guillotine_symbol(
                         [reel \in G_Reels |-> [row \in G_Rows |->
                             create_symbol(manual_reels(reel)[
                                 ((stops[reel] + row) % Len(manual_reels(reel))) + 1])]],
                         guaranteed_g) }
            : stops \in [G_Reels -> 0 .. ManualStops - 1] }

VerifyInit ==
    /\ game = "guillotine"
    /\ criteria = [betmode |-> "", name |-> "verify_logic", win_criteria |-> -1,
                   force_freegame |-> FALSE, force_wincap |-> FALSE,
                   scatter_triggers |-> { }]
    /\ pc = "verify"
    /\ fs_trigger_count = 5
    /\ attempt = 0
    /\ rng = [log |-> << >>, pos |-> 0, replay |-> FALSE, record |-> FALSE]
    /\ prev_events = << >>
    /\ board = << >>
    /\ special_syms_on_board = << >>
    /\ win_data = no_win_data
    /\ win_manager = reset_end_round_wins
    /\ wincap_triggered = FALSE
    /\ final_win = 0
    /\ gametype = ""
    /\ fs = 0 /\ tot_fs = 0
    /\ repeat = FALSE
    /\ triggered_freegame = FALSE
    /\ events = << >>
    /\ reel_multipliers = << >>
    /\ guillotine_resolved = FALSE
    /\ wild_capability = << >>
    /\ resolution = << >>
    /\ position_multipliers = << >>
    /\ feature_pass = no_feature_pass
    /\ multiplier_grid = << >>
    /\ pass = no_pass
    /\ reel_positions = << >>
    /\ reelstrip = ""
    /\ sim_stats = SimulationStats_reset
    /\ workers = << >>

\* run_spin(state) up to the end of draw_board: the game type is set to the
\* base game, spin_logic clears the flag and the multipliers and draws
OverrideDraw ==
    /\ game = "guillotine" /\ pc = "verify"
    /\ gametype' = basegame_type
    /\ guillotine_resolved' = FALSE
    /\ reel_multipliers' = << >>
    /\ LET mode_config == get_current_mode_config(criteria.betmode, basegame_type,
                                                  fs_trigger_count)
       IN  \E r \in draw_from_manual_reels(mode_config.guaranteed_g) :
              /\ board' = r.board
              /\ reel_positions' = r.reel_positions
              /\ special_syms_on_board' = G_get_special_symbols_on_board(r.board)
    /\ pc' = "verify_drawn"
    /\ UNCHANGED << s_vars, game, criteria, attempt, rng, prev_events, win_data,
                    win_manager, wincap_triggered, final_win, fs, tot_fs, repeat,
                    triggered_freegame, events, wild_capability, fs_trigger_count,
                    resolution, a_vars, v_vars, reelstrip, pass >>

\* the rest of spin_logic: resolve_guillotine_features under the mode of the
\* state, calculate_wins, _sync_state_view; no wild capability was read
OverrideResolve ==
    /\ game = "guillotine" /\ pc = "verify_drawn"
    /\ LET mode_cfg == get_current_mode_config(criteria.betmode, gametype, fs_trigger_count)
           capability == [reel \in G_Reels |-> "P"]
       IN  \E first \in resolve_guillotines(board, mode_cfg, capability) :
           \E res \in resolve_unless_resolved(TRUE, first.board, first.reel_multipliers,
                                              mode_cfg, capability) :
           \E wd \in { evaluate_lines(res.board, res.reel_multipliers) } :
             LET wm1 == IF wd.totalWin > 0 THEN update_spinwin(win_manager, wd.totalWin)
                        ELSE win_manager
             IN  /\ board' = res.board
                 /\ reel_multipliers' = res.reel_multipliers
                 /\ guillotine_resolved' = TRUE
                 /\ resolution' = [received |-> board, enforced |-> first.enforced,
                                   outcome |-> first.outcome, mode |-> mode_cfg,
                                   g_mult |-> first.g_mult,
                                   behead_vals |-> first.behead_vals,
                                   capability |-> capability]
                 /\ special_syms_on_board' = G_get_special_symbols_on_board(res.board)
                 /\ win_data' = wd
                 /\ win_manager' = wm1
                 /\ events' = events \o emit_linewin_events(wm1, wd)
    /\ pc' = "verified"
    /\ UNCHANGED << s_vars, game, criteria, attempt, rng, prev_events, wincap_triggered,
                    final_win, gametype, fs, tot_fs, repeat, triggered_freegame,
                    wild_capability, fs_trigger_count, a_vars, v_vars, t_vars, pass >>

VerifyNext == OverrideDraw \/ OverrideResolve

VerifySpec == VerifyInit /\ [][VerifyNext]_vars

\* the spins of the simulation runner and the spins of the external caller
ResolveInit == GuillotineInit \/ VerifyInit

ResolveNext == GuillotineNext \/ VerifyNext

ResolveSpec == ResolveInit /\ [][ResolveNext]_vars

\* a second run_spin of the same game object with the same simulation index:
\* reset_seed puts the random stream back to its start
Rerun ==
    /\ pc = "done" /\ rng.record /\ ~rng.replay
    /\ prev_events' = events
    /\ rng' = [rng EXCEPT !.replay = TRUE, !.pos = 0]
    /\ attempt' = 0
    /\ pc' = "start"
    /\ UNCHANGED << s_vars, game, criteria, board, special_syms_on_board, win_data, win_manager,
                    wincap_triggered, final_win, gametype, fs, tot_fs, repeat,
                    triggered_freegame, events, g_vars, a_vars, v_vars, t_vars, pass >>

\* the simulations that are run twice: the base game distributions, under
\* which a spin never enters the free spins
ReplaySimulations == { sim \in Simulations : sim.criteria.name = "basegame" }

ReplayInit == Start(ReplaySimulations, TRUE)

ReplayNext ==
    \/ RunSpin \/ ImprintWins \/ Finalize \/ Rerun
    \/ G_Draw \/ G_Evaluate \/ G_FsCheck
    \/ A_Draw \/ A_Evaluate \/ A_Tumble \/ A_Features \/ A_EndSpin
    \/ V_Draw \/ V_Evaluate \/ V_Tumble \/ V_EndSpin

ReplaySpec == ReplayInit /\ [][ReplayNext]_vars

----------------------------------------------------------------------------
(* Alchemy: get_clusters_update_wins on the board of the configuration *)

\* config.num_reels, and config.num_rows of every reel
config_num_reels == 7

PayCells == 0 .. config_num_reels - 1

\* the sizes of the group put on the board: around the ends of every range
ClusterSizes == { 1, 3, 4, 5, 6, 8, 9, 12, 13, 14, 30, 49 }

ClusterInputs == [sym : { "H1", "H3", "L2", "L4" }, size : ClusterSizes, wild : BOOLEAN]

\* four symbols that are not the symbol of the group
Filler(sym) ==
    IF sym \in { "H1", "H2", "H3", "H4" } THEN << "L1", "L2", "L3", "L4" >>
    ELSE << "H1", "H2", "H3", "H4" >>

\* a board with one connected group of `size` cells of `sym` (its second cell
\* a wild when `wild`), reel after reel from the top-left corner; around it no
\* two neighbouring cells hold the same symbol
ClusterBoard(in) ==
    [reel \in PayCells |-> [row \in PayCells |->
        LET k == reel * config_num_reels + row
        IN  IF k < in.size
            THEN IF in.wild /\ k = 1 THEN create_symbol("W") ELSE create_symbol(in.sym)
            ELSE create_symbol(Filler(in.sym)[((row + 2 * reel) % 4) + 1])]]

GroupCells(in) ==
    { c \in PayCells \X PayCells : c[1] * config_num_reels + c[2] < in.size }

ClusterInit ==
    /\ game = "alchemy"
    /\ criteria \in ClusterInputs
    /\ pc = "pay_input"
    /\ board = ClusterBoard(criteria)
    /\ position_multipliers = [reel \in PayCells |-> [row \in PayCells |-> 1]]
    /\ attempt = 0
    /\ rng = [log |-> << >>, pos |-> 0, replay |-> FALSE, record |-> FALSE]
    /\ prev_events = << >>
    /\ special_syms_on_board = << >>
    /\ win_data = no_win_data
    /\ win_manager = reset_end_round_wins
    /\ wincap_triggered = FALSE
    /\ final_win = 0
    /\ gametype = basegame_type
    /\ fs = 0 /\ tot_fs = 0
    /\ repeat = FALSE
    /\ triggered_freegame = FALSE
    /\ events = << >>
    /\ reel_multipliers = << >>
    /\ guillotine_resolved = FALSE
    /\ wild_capability = << >>
    /\ fs_trigger_count = 0
    /\ resolution = << >>
    /\ feature_pass = no_feature_pass
    /\ multiplier_grid = << >>
    /\ pass = no_pass
    /\ reel_positions = << >>
    /\ reelstrip = ""
    /\ sim_stats = SimulationStats_reset
    /\ workers = << >>

\* get_clusters_update_wins, emit_tumble_win_events and update_grid_mults on
\* the board
PayEvaluate ==
    /\ pc = "pay_input"
    /\ \E ev \in { evaluate_step(board, position_multipliers, win_manager, wincap_triggered) } :
          /\ board' = ev.board
          /\ win_data' = ev.win_data
          /\ win_manager' = ev.win_manager
          /\ wincap_triggered' = ev.wincap_triggered
          /\ position_multipliers' = ev.position_multipliers
          /\ events' = events \o ev.events
          /\ pass' = [kind |-> "evaluate", before |-> position_multipliers,
                      after |-> ev.position_multipliers, wins |-> ev.win_data.wins,
                      removed |-> 0, iterations |-> 0]
    /\ pc' = "pay_done"
    /\ UNCHANGED << s_vars, feature_pass, game, criteria, attempt, rng, prev_events,
                    special_syms_on_board, final_win, gametype, fs, tot_fs, repeat,
                    triggered_freegame, g_vars, v_vars, t_vars >>

ClusterNext == PayEvaluate

ClusterSpec == ClusterInit /\ [][ClusterNext]_vars

----------------------------------------------------------------------------
(* Alchemy: worker threads running episodes side by side. Each worker has its
   own GameState; gamestate.py's sim_stats is one object of the module, which
   run_spin of every episode of every worker raises. Of an episode only the
   statements on sim_stats of one base attempt are kept:
   "sim_stats.total_spins += 1" (line 127), which reads the attribute, adds and
   writes it back, and "sim_stats.base_spins += 1" (line 128). *)

NumWorkers == 2

EpisodesPerWorker == 2

Workers == 1 .. NumWorkers

StatsInit ==
    /\ game = "alchemy"
    /\ criteria = [name |-> "basegame"]
    /\ pc = "workers"
    /\ workers = [w \in Workers |-> [pc |-> "line_127", loaded |-> 0, sim |-> 0]]
    /\ sim_stats = SimulationStats_reset
    /\ board = << >>
    /\ position_multipliers = << >>
    /\ attempt = 0
    /\ rng = [log |-> << >>, pos |-> 0, replay |-> FALSE, record |-> FALSE]
    /\ prev_events = << >>
    /\ special_syms_on_board = << >>
    /\ win_data = no_win_data
    /\ win_manager = reset_end_round_wins
    /\ wincap_triggered = FALSE
    /\ final_win = 0
    /\ gametype = basegame_type
    /\ fs = 0 /\ tot_fs = 0
    /\ repeat = FALSE
    /\ triggered_freegame = FALSE
    /\ events = << >>
    /\ reel_multipliers = << >>
    /\ guillotine_resolved = FALSE
    /\ wild_capability = << >>
    /\ fs_trigger_count = 0
    /\ resolution = << >>
    /\ feature_pass = no_feature_pass
    /\ multiplier_grid = << >>
    /\ pass = no_pass
    /\ reel_positions = << >>
    /\ reelstrip = ""

EpisodeVars ==
    << game, pc, criteria, attempt, rng, prev_events, board, special_syms_on_board,
       win_data, win_manager, wincap_triggered, final_win, gametype, fs, tot_fs, repeat,
       triggered_freegame, events, g_vars, a_vars, v_vars, t_vars, pass >>

\* line 127, first half: the worker reads sim_stats.total_spins
ReadTotalSpins(w) ==
    /\ pc = "workers" /\ workers[w].pc = "line_127"
    /\ workers' = [workers EXCEPT ![w].loaded = sim_stats.total_spins,
                                  ![w].pc = "line_127_store"]
    /\ UNCHANGED << sim_stats, EpisodeVars >>

\* line 127, second half: the worker writes the value it read, plus one
WriteTotalSpins(w) ==
    /\ pc = "workers" /\ workers[w].pc = "line_127_store"
    /\ sim_stats' = [sim_stats EXCEPT !.total_spins = workers[w].loaded + 1]
    /\ workers' = [workers EXCEPT ![w].pc = "line_128"]
    /\ UNCHANGED EpisodeVars

\* line 128, taken in one step, and the rest of the episode of the worker
RaiseBaseSpins(w) ==
    /\ pc = "workers" /\ workers[w].pc = "line_128"
    /\ sim_stats' = [sim_stats EXCEPT !.base_spins = @ + 1]
    /\ workers' = [workers EXCEPT ![w].sim = @ + 1,
                                  ![w].pc = IF workers[w].sim + 1 < EpisodesPerWorker
                                            THEN "line_127" ELSE "done"]
    /\ UNCHANGED EpisodeVars

StatsNext ==
    \/ \E w \in Workers : ReadTotalSpins(w)
    \/ \E w \in Workers : WriteTotalSpins(w)
    \/ \E w \in Workers : RaiseBaseSpins(w)

StatsSpec == StatsInit /\ [][StatsNext]_vars

----------------------------------------------------------------------------
(* Properties *)

RECURSIVE IsPowerOfTwo(_)
IsPowerOfTwo(n) == n = 1 \/ (n > 1 /\ n % 2 = 0 /\ IsPowerOfTwo(n \div 2))

\* the reel strip position count: how many refills a strip supplies before it
\* repeats itself
max_refill_count ==
    IF game = "alchemy" THEN Len(Alchemy_reels(reelstrip)) ELSE Len(Volley_reels(reelstrip))

\* the iteration bound of a cascade loop: board cells times refill count
sanity_bound == Cardinality(Cells(board)) * max_refill_count

\* C1: at the end of every episode of every game the total win is at most
\* config.wincap, and it equals config.wincap only if the wincap was triggered
C1_TotalWinWithinWincap ==
    pc = "done" => /\ final_win <= wincap
                   /\ (final_win = wincap => wincap_triggered)

\* C2: in Alchemy every cell of position_multipliers, before and after every
\* pass over the grid, is a power of two between 1 and maximum_board_mult, and
\* no step other than the reset of a new base attempt lowers a cell
C2_GridPowersOfTwo ==
    /\ [](game = "alchemy" /\ position_multipliers # << >> =>
            \A c \in A_Cells :
               /\ IsPowerOfTwo(position_multipliers[c[1]][c[2]])
               /\ position_multipliers[c[1]][c[2]] <= maximum_board_mult
               /\ pass.kind # "none" =>
                    /\ IsPowerOfTwo(pass.before[c[1]][c[2]])
                    /\ pass.before[c[1]][c[2]] <= maximum_board_mult
                    /\ pass.before[c[1]][c[2]] <= pass.after[c[1]][c[2]])
    /\ [][game = "alchemy" /\ position_multipliers # << >> /\ pc # "loop" =>
            \A c \in A_Cells :
               position_multipliers'[c[1]][c[2]] >= position_multipliers[c[1]][c[2]]]_vars

\* C2 happens: a winning cell already at maximum_board_mult stays there
C2_Witness ==
    /\ game = "alchemy" /\ pass.kind = "cascade"
    /\ \E c \in WinCells(win_data) :
          /\ pass.before[c[1]][c[2]] = maximum_board_mult
          /\ position_multipliers[c[1]][c[2]] = maximum_board_mult

\* C3: in Volley Siege no cell of multiplier_grid exceeds the configured
\* maximum multiplier, in the base spin and through the free spins
C3_VolleyGridCapped ==
    game = "volley" /\ multiplier_grid # << >> =>
        \A r \in V_Rows, c \in V_Reels : multiplier_grid[r][c] <= Volley_maximum_multiplier

\* C4: in one evaluation pass a cell covered by the pass's win records, by one
\* or by several, is doubled exactly once (up to the grid's maximum)
C4_DoubledOncePerPass ==
    /\ game = "alchemy" /\ pass.kind # "none" =>
          \A c \in WinCells([wins |-> pass.wins]) :
             pass.after[c[1]][c[2]] = Min(2 * pass.before[c[1]][c[2]], maximum_board_mult)
    /\ game = "volley" /\ pass.kind # "none" =>
          \A c \in WinCells([wins |-> pass.wins]) :
             pass.after[c[2]][c[1]] = 2 * pass.before[c[2]][c[1]]

\* C5: a cascade loop runs at most (board cells) x (maximum refill count)
\* iterations
C5_CascadeBounded ==
    game \in { "alchemy", "volley" } /\ pass.kind \in { "cascade", "features" } =>
        pass.iterations <= sanity_bound

\* C6: a cascade loop that has run past the sanity iteration bound has ended
\* the episode with a fatal error
C6_FatalPastSanityBound ==
    (game \in { "alchemy", "volley" } /\ pass.kind = "cascade"
        /\ pass.iterations > sanity_bound) => pc = "fatal"

\* C7: an iteration of a cascade loop starts only after an evaluation with
\* totalWin > 0 and with the wincap not triggered, and its tumble removes at
\* least one symbol
C7_IterationRemoves ==
    [][pass'.kind = "cascade" /\ pass' # pass =>
          /\ win_data.totalWin > 0
          /\ ~wincap_triggered
          /\ pass'.removed >= 1
          /\ pass'.removed >= Cardinality(WinCells(win_data))]_vars

\* C7 happens: a second iteration of a loop has removed symbols
C7_Witness == pass.kind = "cascade" /\ pass.iterations >= 2 /\ pass.removed >= 1

\* C9: a reel whose guillotine jammed is as it was when the outcome was
\* sampled, G included, holds no wild made by the resolution, and has no entry
\* in reel_multipliers
C9_JamLeavesReel ==
    game = "guillotine" /\ guillotine_resolved =>
        \A reel \in G_Reels :
           resolution.outcome[reel] = "jam" =>
              /\ board[reel] = resolution.enforced[reel]
              /\ \E r \in G_Rows : board[reel][r].name \in guillotine_syms
              /\ \A r \in G_Rows : board[reel][r].name = "W" =>
                                      resolution.received[reel][r].name = "W"
              /\ reel \notin DOMAIN reel_multipliers

\* C9 happens: a guillotine jammed on a reel that holds other symbols
C9_Witness ==
    /\ game = "guillotine" /\ guillotine_resolved
    /\ \E reel \in G_Reels : resolution.outcome[reel] = "jam"

\* C10: on a reel whose guillotine at row g dropped, the rows g .. bottom are
\* wilds carrying reel_multipliers[reel] and the rows above g are unchanged
C10_DropPath ==
    game = "guillotine" /\ guillotine_resolved =>
        \A reel \in G_Reels :
           resolution.outcome[reel] = "drop" =>
              LET g == SetMin({ r \in G_Rows :
                                  resolution.enforced[reel][r].name \in guillotine_syms })
              IN  /\ reel \in DOMAIN reel_multipliers
                  /\ \A r \in G_Rows :
                        IF r >= g
                        THEN /\ board[reel][r].name = "W"
                             /\ board[reel][r].reel_multiplier = reel_multipliers[reel]
                        ELSE board[reel][r] = resolution.enforced[reel][r]

\* C10 happens: a guillotine dropped from a row with cells above and below it
C10_Witness ==
    /\ game = "guillotine" /\ guillotine_resolved
    /\ \E reel \in G_Reels :
          /\ resolution.outcome[reel] = "drop"
          /\ \E g \in G_Rows : /\ resolution.enforced[reel][g].name \in guillotine_syms
                               /\ g > 0 /\ g < Guillotine_num_rows - 1

\* the rows of a reel that hold a symbol of `names`
RowsOf(col, names) == { r \in G_Rows : col[r].name \in names }

\* C11: after resolve_guillotines every reel holds at most one G and at most
\* one S; the reel the jam/drop decision was made on is the received reel with
\* every S after the first and every G after the first replaced by L5
C11_OnePerReel ==
    game = "guillotine" /\ guillotine_resolved =>
        \A reel \in G_Reels :
           /\ Cardinality(RowsOf(board[reel], guillotine_syms)) <= 1
           /\ Cardinality(RowsOf(board[reel], scatter_syms)) <= 1
           /\ \A r \in G_Rows :
                 LET rec == resolution.received[reel]
                     extra(names) == /\ r \in RowsOf(rec, names)
                                     /\ r # SetMin(RowsOf(rec, names))
                 IN  IF extra(guillotine_syms) \/ extra(scatter_syms)
                     THEN resolution.enforced[reel][r].name = "L5"
                     ELSE resolution.enforced[reel][r] = rec[r]

\* C11 happens: a reel came with two G and a reel came with two S
C11_Witness ==
    /\ game = "guillotine" /\ guillotine_resolved
    /\ \E reel \in G_Reels :
          Cardinality(RowsOf(resolution.received[reel], guillotine_syms)) >= 2
    /\ \E reel \in G_Reels :
          Cardinality(RowsOf(resolution.received[reel], scatter_syms)) >= 2

\* C12: a jam is an outcome only of a mode with jam_allowed; in a mode without
\* it every reel that holds a G and whose capability symbol is P drops: no G
\* is left on the reel and the reel has an entry in reel_multipliers
C12_JamOnlyWhenAllowed ==
    game = "guillotine" /\ guillotine_resolved =>
        \A reel \in G_Reels :
           /\ resolution.outcome[reel] = "jam" => resolution.mode.jam_allowed
           /\ (/\ ~resolution.mode.jam_allowed
               /\ RowsOf(resolution.enforced[reel], guillotine_syms) # { }
               /\ resolution.capability[reel] = "P")
              => /\ resolution.outcome[reel] = "drop"
                 /\ RowsOf(board[reel], guillotine_syms) = { }
                 /\ reel \in DOMAIN reel_multipliers

\* C12 happens: a G dropped on a capable reel in a mode without jam
C12_Witness ==
    /\ game = "guillotine" /\ guillotine_resolved
    /\ ~resolution.mode.jam_allowed
    /\ \E reel \in G_Reels :
          /\ RowsOf(resolution.enforced[reel], guillotine_syms) # { }
          /\ resolution.capability[reel] = "P"
          /\ reel \in DOMAIN reel_multipliers

\* the reels on which the positions of a recorded line win hold a wild that
\* carries a reel multiplier
MultReelsOf(w) ==
    { reel \in G_Reels :
        \E j \in DOMAIN w.positions :
           /\ w.positions[j][1] = reel
           /\ board[reel][w.positions[j][2]].name = "W"
           /\ board[reel][w.positions[j][2]].reel_multiplier > 0 }

\* C13: every line win of evaluate_lines_board is its paytable amount times one
\* contribution, the largest reel_multipliers[r] over the reels r where the
\* line holds a multiplier wild, or 1 where there is none (the amount being
\* held at the wincap)
C13_OneContributionPerLine ==
    game = "guillotine" /\ guillotine_resolved =>
        \A i \in DOMAIN win_data.wins :
           LET w == win_data.wins[i]
               base == Guillotine_paytable(w.kind, w.symbol)
               R == MultReelsOf(w)
               m == IF R = { } THEN 1 ELSE SetMax({ reel_multipliers[r] : r \in R })
           IN  /\ R \subseteq DOMAIN reel_multipliers
               /\ base > 0
               /\ w.win = IF m > Guillotine_wincap \div base THEN Guillotine_wincap
                          ELSE Min(base * m, Guillotine_wincap)

\* C13 happens: a line win below the wincap runs over multiplier wilds of two
\* reels with different reel multipliers
C13_Witness ==
    /\ game = "guillotine" /\ guillotine_resolved
    /\ \E i \in DOMAIN win_data.wins :
          /\ win_data.wins[i].win < Guillotine_wincap
          /\ \E r1, r2 \in MultReelsOf(win_data.wins[i]) :
                reel_multipliers[r1] # reel_multipliers[r2]

\* C14: after evaluate_lines_board no line win exceeds config.wincap and
\* win_data.totalWin is the smaller of the sum of the adjusted line wins and
\* config.wincap
C14_LineWinsAndTotalClamped ==
    game = "guillotine" /\ guillotine_resolved =>
        /\ \A i \in DOMAIN win_data.wins : win_data.wins[i].win <= Guillotine_wincap
        /\ win_data.totalWin =
              Min(SeqSum([i \in DOMAIN win_data.wins |-> win_data.wins[i].win]),
                  Guillotine_wincap)

\* C14 happens: a line win was clamped to the wincap and the adjusted line wins
\* add up to more than the wincap
C14_Witness ==
    /\ game = "guillotine" /\ guillotine_resolved
    /\ \E i \in DOMAIN win_data.wins :
          /\ win_data.wins[i].win = Guillotine_wincap
          /\ MultReelsOf(win_data.wins[i]) # { }
    /\ SeqSum([i \in DOMAIN win_data.wins |-> win_data.wins[i].win]) > Guillotine_wincap

\* C15: the reel multiplier of a drop is the drawn g_mult combined with one
\* behead draw per high symbol strictly below the G, by sum in an ADD mode and
\* by product in a MULTIPLY mode; low symbols and the G's own cell give no
\* draw; every drawn value is a member of config.multiplier_set
C15_DropMultiplier ==
    game = "guillotine" /\ guillotine_resolved =>
        \A reel \in G_Reels :
           resolution.outcome[reel] = "drop" =>
              LET col == resolution.enforced[reel]
                  g == SetMin(RowsOf(col, guillotine_syms))
                  below == { r \in G_Rows : r > g /\ col[r].name \in highs }
                  vals == resolution.behead_vals[reel]
                  set == { multiplier_set[k] : k \in DOMAIN multiplier_set }
              IN  /\ Len(vals) = Cardinality(below)
                  /\ resolution.g_mult[reel] \in set
                  /\ \A k \in DOMAIN vals : vals[k] \in set
                  /\ reel_multipliers[reel] =
                        IF resolution.mode.behead_mode = "MULTIPLY"
                        THEN resolution.g_mult[reel] * SeqProd(vals)
                        ELSE resolution.g_mult[reel] + SeqSum(vals)

\* C15 happens: a drop in a MULTIPLY mode over a path that holds a high and a
\* low symbol, with draws whose product is not their sum
C15_Witness ==
    /\ game = "guillotine" /\ guillotine_resolved
    /\ resolution.mode.behead_mode = "MULTIPLY"
    /\ \E reel \in G_Reels :
          /\ resolution.outcome[reel] = "drop"
          /\ Len(resolution.behead_vals[reel]) >= 1
          /\ \E r \in G_Rows :
                /\ r > SetMin(RowsOf(resolution.enforced[reel], guillotine_syms))
                /\ resolution.enforced[reel][r].name \notin highs
          /\ reel_multipliers[reel] #
                resolution.g_mult[reel] + SeqSum(resolution.behead_vals[reel])

\* the handlers of the categories the pass was given positions of, in `order`
HandlersIn(order) == SelectSeq(order, LAMBDA h : feature_pass.given[h] # << >>)

\* in the events of the pass every event of type `first` is before every event
\* of type `second`
EventOrder(first, second) ==
    \A i, j \in DOMAIN feature_pass.events :
       feature_pass.events[i].type = first /\ feature_pass.events[j].type = second
          => i < j

\* C16 as stated: the handlers of one feature pass run in the order potion,
\* bomb, transform, each present category's handler once
C16_PotionBombTransform ==
    game = "alchemy" /\ feature_pass.invoked >= 1 =>
        /\ feature_pass.ran = HandlersIn(<< "potion", "bomb", "transform" >>)
        /\ EventOrder("wildPotion", "elixirBomb")
        /\ EventOrder("elixirBomb", "symbolTransform")

\* C16 amended: the handlers of one feature pass run in the order potion,
\* transform, bomb, each present category's handler once, and their events
\* are in the book in that order
C16_PotionTransformBomb ==
    game = "alchemy" /\ feature_pass.invoked >= 1 =>
        /\ feature_pass.ran = HandlersIn(<< "potion", "transform", "bomb" >>)
        /\ EventOrder("wildPotion", "symbolTransform")
        /\ EventOrder("wildPotion", "elixirBomb")
        /\ EventOrder("symbolTransform", "elixirBomb")

\* C16 happens: a pass with a potion, a transform and a bomb on the board,
\* each of which left its event
C16_Witness ==
    /\ game = "alchemy" /\ feature_pass.invoked >= 1
    /\ feature_pass.ran = << "potion", "transform", "bomb" >>
    /\ \A t \in { "wildPotion", "symbolTransform", "elixirBomb" } :
          \E i \in DOMAIN feature_pass.events : feature_pass.events[i].type = t

\* C17: the positions a feature pass hands to its handlers are the positions
\* of the trigger symbols on the board as the pass found it, and when a
\* handler runs every position it was given still holds its trigger symbol
C17_PositionsFromScan ==
    game = "alchemy" /\ feature_pass.invoked >= 1 =>
        \A k \in { "potion", "transform", "bomb" } :
           /\ feature_pass.given[k] =
                 Positions(feature_pass.entry, Alchemy_special_symbols[k])
           /\ feature_pass.given[k] # << >> =>
                 /\ Len(feature_pass.seen[k]) = Len(feature_pass.given[k])
                 /\ \A i \in DOMAIN feature_pass.seen[k] :
                       feature_pass.seen[k][i] \in Alchemy_special_symbols[k]

\* C17 happens: a potion has put wilds on the board before the transform and
\* the bomb of the same pass ran
C17_Witness ==
    /\ game = "alchemy" /\ feature_pass.invoked >= 1
    /\ feature_pass.given.transform # << >> /\ feature_pass.given.bomb # << >>
    /\ \E i \in DOMAIN feature_pass.events :
          /\ feature_pass.events[i].type = "wildPotion"
          /\ feature_pass.events[i].wildsAdded >= 2

\* the feature pass of the spin, with the cascade it started, is over
FeaturePassOver ==
    /\ game = "alchemy" /\ feature_pass.invoked >= 1
    /\ \/ pc = "a_end"
       \/ pc = "a_loop2" /\ ~cascade_continues

\* C18: when the feature pass of a spin is over, none of the potion, transform
\* and bomb symbols its handlers were given is still on the board
C18_TriggersRemoved == FeaturePassOver => feature_pass.remaining = { }

AtFreespinCheck ==
    /\ game = "alchemy"
    /\ \/ pc = "a_end"
       \/ pc = "a_loop2" /\ ~cascade_continues

\* C20: at the free-spin check of a spin that did not reach the wincap every
\* potion, transform and bomb symbol on the board has been given to a feature
\* pass, also one that came onto the board in the cascade the pass started
C20_FeaturesResolvedAtSettle ==
    AtFreespinCheck /\ ~wincap_triggered =>
        \A c \in A_Cells :
           board[c[1]][c[2]].name \in { "P", "T", "B" } => c \in feature_pass.remaining

\* C21: in a base-spin attempt of Alchemy the evaluation follows the draw, the
\* cascade loop follows the evaluation and is left only with no win or at the
\* wincap, the free-spin check follows the feature pass (skipped only at the
\* wincap) and its cascade, and evaluate_finalwin follows the free-spin check
\* or, when free spins were played, their end
C21_PhaseOrder ==
    [][game = "alchemy" =>
         /\ gametype = basegame_type =>
               /\ pc' = "a_eval" => pc = "loop"
               /\ pc = "a_eval" => pc' = "a_loop"
               /\ pc = "a_loop" =>
                     /\ pc' \in { "a_loop", "a_loop2", "a_end" }
                     /\ pc' # "a_loop" => (win_data.totalWin = 0 \/ wincap_triggered)
               /\ pc = "a_loop2" => pc' \in { "a_loop2", "final", "a_fs_loop" }
               /\ pc = "a_end" => pc' \in { "final", "a_fs_loop" }
               /\ (pc \in { "a_loop2", "a_end" } /\ pc' \in { "final", "a_fs_loop" }) =>
                     /\ win_data.totalWin = 0 \/ wincap_triggered
                     /\ feature_pass.invoked = 1 \/ wincap_triggered
         /\ pc' = "final" =>
               \/ gametype = basegame_type /\ pc \in { "a_loop2", "a_end" }
               \/ gametype = freegame_type /\ pc = "a_fs_loop" /\ fs >= tot_fs
         /\ final_win' # final_win => (pc = "final" \/ pc = "loop")]_vars

\* C21 happens: the free spins a base spin triggered have ended and
\* evaluate_finalwin is next
C21_Witness ==
    /\ game = "alchemy" /\ pc = "final"
    /\ triggered_freegame /\ tot_fs > 0 /\ fs >= tot_fs

\* C22: when run_spin reaches imprint_wins, evaluate_finalwin has been executed
\* for the final attempt: the book of the attempt holds its final-win event,
\* also when the wincap was reached
C22_FinalizedBeforeDone ==
    pc = "done" =>
        \E i \in DOMAIN events : events[i] = final_win_event(final_win)

\* the number of scatters a board shows
ScatterCount(b) == count_names(b, { "S" })

\* the spins the claim assigns to n trigger symbols on a base-game board
AwardBase(g, n) ==
    IF g = "alchemy"
    THEN CASE n = 4 -> 10 [] n = 5 -> 12 [] n = 6 -> 15 [] n = 7 -> 18 [] n = 8 -> 20
           [] OTHER -> -1
    ELSE CASE n = 3 -> 10 [] n = 4 -> 15 [] n = 5 -> 20 [] OTHER -> -1

\* the spins the claim assigns to n trigger symbols on a free-game board
AwardFree(g, n) ==
    IF g = "alchemy"
    THEN CASE n = 3 -> 5 [] n = 4 -> 8 [] n = 5 -> 10 [] n = 6 -> 12 [] n = 7 -> 15
           [] n = 8 -> 18 [] OTHER -> -1
    ELSE CASE n = 3 -> 5 [] n = 4 -> 8 [] n = 5 -> 12 [] OTHER -> -1

\* C23: the entry into free spins from a base-game board with n scatters sets
\* tot_fs to the base-game table's award for n, and a retrigger on a free-game
\* board with n scatters adds the free-game table's award for n to tot_fs
C23_AwardByGameType ==
    [][(game = "alchemy" \/ game = "guillotine") =>
         /\ (gametype = basegame_type /\ gametype' = freegame_type) =>
               tot_fs' = AwardBase(game, ScatterCount(board'))
         /\ (gametype = freegame_type /\ gametype' = freegame_type) =>
               IF \E i \in DOMAIN events' :
                     i > Len(events) /\ events'[i].type = "freeSpinTrigger"
               THEN tot_fs' = tot_fs + AwardFree(game, ScatterCount(board'))
               ELSE tot_fs' = tot_fs]_vars

\* C23 happens: free spins that 4 scatters of an Alchemy base board awarded
\* were retriggered by 3 scatters
C23_Witness ==
    /\ game = "alchemy" /\ gametype = freegame_type
    /\ tot_fs = 10 + 5
    /\ ScatterCount(board) = 3
    /\ \E i \in DOMAIN events :
          /\ events[i].type = "freeSpinTrigger"
          /\ events[i].gameType = freegame_type

\* C24: in Volley Siege the entry into free spins from a base-game board adds
\* to the free spins the award the base-game table gives for the number of
\* scatters on the board
C24_VolleyEntryFromTable ==
    [][(game = "volley" /\ gametype = basegame_type /\ gametype' = freegame_type
           /\ ScatterCount(board') \in { 4, 5 }) =>
         (tot_fs' = tot_fs + Volley_base_freespin_triggers(ScatterCount(board')))]_vars

\* the first size of the range of the paytable a size falls in
RangeStart(size) ==
    IF size = 5 THEN 5 ELSE IF size \in 6 .. 8 THEN 6
    ELSE IF size \in 9 .. 12 THEN 9 ELSE 13

\* C25: the minimum cluster size is 5. A connected group (4-neighbour, wilds
\* matching) of fewer than 5 cells, of exactly 4 in particular, pays nothing;
\* a group of exactly 5 pays the rate of the first range (2.0 for H1), and a
\* group of 6-8, 9-12 or 13-49 cells pays the rate of its range: one win
\* record, over the cells of the group, with the pay every size of the range
\* has, larger from range to range.
C25_ClusterSizeBuckets ==
    pc = "pay_done" =>
        LET in == criteria
        IN  IF in.size < 5
            THEN win_data = no_win_data
            ELSE /\ Len(win_data.wins) = 1
                 /\ win_data.wins[1].symbol = in.sym
                 /\ win_data.wins[1].clusterSize = in.size
                 /\ win_data.wins[1].positions = ScanOrder(GroupCells(in))
                 /\ win_data.wins[1].win = Alchemy_paytable(RangeStart(in.size), in.sym)
                 /\ win_data.totalWin = win_data.wins[1].win
                 /\ win_data.totalWin > 0
                 /\ (in.sym = "H1" /\ in.size = 5) => win_data.totalWin = 200
                 /\ (in.sym = "H1" /\ in.size = 13) => win_data.totalWin = 2000
                 /\ in.size > 5 =>
                       win_data.totalWin > Alchemy_paytable(RangeStart(in.size) - 1, in.sym)

\* a group of exactly 5 with a wild in it was paid
C25_Witness ==
    /\ pc = "pay_done" /\ criteria.size = 5 /\ criteria.wild
    /\ win_data.totalWin = Alchemy_paytable(5, criteria.sym)
    /\ win_data.totalWin > 0

\* the cells of one win record
CellsOf(w) == { w.positions[j] : j \in DOMAIN w.positions }

\* C26: in Alchemy a win is paid with the grid multipliers as they were before
\* the doubling of its pass: every win record of a pass is the pay of its
\* symbol and size times the largest multiplier its cells had before the
\* pass; a cluster on cells all at 1 pays exactly the base pay, and its cells
\* are doubled only afterwards, for later wins.
C26_PaidBeforeDoubling ==
    game = "alchemy" /\ pass.kind # "none" =>
        \A i \in DOMAIN pass.wins :
           LET w == pass.wins[i]
               base == Alchemy_paytable(w.clusterSize, w.symbol)
           IN  /\ w.win = base * SetMax({ pass.before[c[1]][c[2]] : c \in CellsOf(w) })
               /\ (\A c \in CellsOf(w) : pass.before[c[1]][c[2]] = 1) =>
                     /\ w.win = base
                     /\ \A c \in CellsOf(w) : pass.after[c[1]][c[2]] >= 2

\* C26 happens: the first evaluation of a spin paid a cluster on cells all at 1
\* its base pay, and the cells are at 2 now
C26_Witness ==
    /\ game = "alchemy" /\ pass.kind = "evaluate" /\ pc = "a_loop"
    /\ \E i \in DOMAIN pass.wins :
          /\ \A c \in CellsOf(pass.wins[i]) : pass.before[c[1]][c[2]] = 1
          /\ pass.wins[i].win
                = Alchemy_paytable(pass.wins[i].clusterSize, pass.wins[i].symbol)
          /\ pass.wins[i].win > 0
          /\ \A c \in CellsOf(pass.wins[i]) : position_multipliers[c[1]][c[2]] = 2

\* the episodes the workers have run
RECURSIVE EpisodesRun(_)
EpisodesRun(w) == IF w = 0 THEN 0 ELSE workers[w].sim + EpisodesRun(w - 1)

\* C27: episodes that run side by side share nothing they write, so none of
\* them loses or corrupts the update of another: when the workers have run
\* their episodes, each counter of sim_stats that an episode raises by one
\* holds the number of episodes run.
C27_NoLostUpdate ==
    (pc = "workers" /\ \A w \in Workers : workers[w].pc = "done") =>
        /\ sim_stats.total_spins = EpisodesRun(NumWorkers)
        /\ sim_stats.base_spins = EpisodesRun(NumWorkers)

\* the board names of the last reveal event: the symbols of the primary strip
LastReveal ==
    LET i == CHOOSE j \in DOMAIN events :
                 events[j].type = "reveal"
                 /\ \A m \in DOMAIN events : events[m].type = "reveal" => m <= j
    IN  events[i].board

\* the overlay strip of the draw, and its symbol `row` places below stop o
OverlayName ==
    get_current_mode_config(criteria.betmode, gametype, fs_trigger_count)
        .overlay_reels[gametype]

OverlaySym(reel, o, row) ==
    reels(OverlayName)[((o + row) % Len(reels(OverlayName))) + 1][reel + 1]

\* the board is the primary board with a G on exactly the cells of the
\* overlay window at stop o that hold P
Overlaid(o) ==
    \A reel \in G_Reels, row \in G_Rows :
       board[reel][row] = IF OverlaySym(reel, o, row) = "P" THEN create_symbol("G")
                          ELSE create_symbol(LastReveal[reel][row])

\* the same, but for one more G where the overlay left the board without one
OverlaidAndEnsured(o) ==
    /\ \A reel \in G_Reels, row \in G_Rows : OverlaySym(reel, o, row) # "P"
    /\ \A reel \in G_Reels, row \in G_Rows : LastReveal[reel][row] \notin guillotine_syms
    /\ \E c \in G_Reels \X G_Rows :
          \A reel \in G_Reels, row \in G_Rows :
             board[reel][row] = IF << reel, row >> = c THEN create_symbol("G")
                                ELSE create_symbol(LastReveal[reel][row])

C29_GridResetOnlyAtBaseAttempt ==
    [][game = "volley" =>
         /\ (pc = "loop" /\ attempt' = attempt + 1) =>
               multiplier_grid' = [r \in V_Rows |-> [c \in V_Reels |-> 1]]
         /\ (pc # "loop" /\ multiplier_grid # << >>) =>
               \A r \in V_Rows, c \in V_Reels :
                  multiplier_grid'[r][c] >= multiplier_grid[r][c]
         /\ (gametype' = freegame_type /\ (gametype = basegame_type \/ fs' = fs + 1)) =>
               multiplier_grid' = multiplier_grid]_vars

\* C29 happens: a free spin after a retrigger starts with cells above 1
C29_Witness ==
    /\ game = "volley" /\ gametype = freegame_type /\ pc = "v_eval"
    /\ fs > 1
    /\ \E i \in DOMAIN events :
          events[i].type = "freeSpinTrigger" /\ events[i].gameType = freegame_type
    /\ \E r \in V_Rows, c \in V_Reels : multiplier_grid[r][c] >= 2

\* the grid a reader of the event stream finds in an event: the value stored
\* in it or, where the event holds the game's grid object, what that object
\* holds now
GridShown(e, grid) ==
    IF e.type = "boardMultiplierInfo"
    THEN (IF e.multiplierMap = "self.multiplier_grid" THEN grid ELSE e.multiplierMap)
    ELSE IF e.type \in { "updateGrid", "elixirBomb" } THEN e.gridMultipliers
    ELSE << >>

\* C30: every multiplier-grid record of the event stream is a snapshot. A grid
\* event shows, when it is emitted, the grid of that moment (in Volley Siege
\* the grid its boardMult was summed over), and no later step of the episode
\* changes what an event of the book shows.
C30_GridEventsAreSnapshots ==
    [][((game = "alchemy" \/ game = "volley") /\ pc # "loop" /\ pc # "start") =>
         /\ \A i \in DOMAIN events :
               /\ i \in DOMAIN events'
               /\ GridShown(events'[i], multiplier_grid') = GridShown(events[i], multiplier_grid)
         /\ \A i \in DOMAIN events' :
               (i > Len(events) /\ i = Len(events') /\ events'[i].type = "updateGrid") =>
                    events'[i].gridMultipliers = position_multipliers'
         /\ \A i \in DOMAIN events' :
               (i > Len(events) /\ events'[i].type = "boardMultiplierInfo") =>
                    events'[i].boardMult = board_mult(GridShown(events'[i], multiplier_grid'))]_vars

\* the scatter count of the event that entered the free spins from the base game
EntryCount ==
    LET i == CHOOSE j \in DOMAIN events :
                 events[j].type = "freeSpinTrigger" /\ events[j].gameType = basegame_type
    IN  Len(events[i].positions)

TierOf(n) == IF n >= 5 THEN "fs5" ELSE IF n = 4 THEN "fs4" ELSE "fs3"

C32_TierFiveSpinShowsGuillotine ==
    (game = "guillotine" /\ pc = "verified") =>
        /\ resolution.mode.guaranteed_g
        /\ resolution.mode.behead_mode = "MULTIPLY"
        /\ ~resolution.mode.jam_allowed
        /\ \/ \E reel \in G_Reels, row \in G_Rows : board[reel][row].name = "G"
           \/ \E reel \in DOMAIN reel_multipliers : reel_multipliers[reel] > 1

\* C33: in Alchemy every evaluation, of the base spin, of a free spin and of
\* the feature pass, is followed by one doubling of the grid before the next
\* tumble: a cell of a win of the evaluation is doubled once (up to the
\* maximum), never twice, and no other cell changes
C33_OneDoublingPerEvaluation ==
    (game = "alchemy" /\ pass.kind \in { "evaluate", "cascade", "features" }) =>
        \A r \in DOMAIN pass.before : \A col \in DOMAIN pass.before[r] :
            pass.after[r][col] =
                IF << r, col >> \in WinCells([wins |-> pass.wins])
                THEN Min(2 * pass.before[r][col], maximum_board_mult)
                ELSE pass.before[r][col]

\* the results resolve_guillotines has on the board the evaluation received
OnceResolved ==
    { << r.board, r.reel_multipliers >>
      : r \in resolve_guillotines(resolution.received, resolution.mode,
                                  resolution.capability) }

\* C34: in Guillotine the flag guillotine_resolved is clear on every drawn
\* board that waits for its evaluation, and the board the line evaluation sees
\* is the drawn board resolved exactly once: set after the evaluation, with the
\* board and the reel multipliers of one resolve_guillotines, also when
\* resolve_guillotine_features resolved before evaluate_lines_board ran
C34_ResolvedOncePerBoard ==
    game = "guillotine" =>
        /\ pc \in { "g_eval", "g_fs_eval", "verify_drawn" } => ~guillotine_resolved
        /\ pc \in { "g_fscheck", "break", "g_fs_loop", "g_fs_end", "verified" } =>
              /\ guillotine_resolved
              /\ << board, reel_multipliers >> \in OnceResolved

\* a spin of the external caller in which a blade dropped: its board was
\* resolved by resolve_guillotine_features and evaluated afterwards
C34_Witness ==
    /\ game = "guillotine" /\ pc = "verified" /\ guillotine_resolved
    /\ \E reel \in G_Reels : resolution.outcome[reel] = "drop"
    /\ << board, reel_multipliers >> \in OnceResolved

\* C35: in Guillotine no board is drawn after evaluate_wincap has reported the
\* wincap: no reveal follows the wincap event in the book, and from a state
\* with the wincap reported no step draws a board, plays a free spin or
\* enters the free spins
C35_NoDrawAfterWincap ==
    /\ [](game = "guillotine" =>
            \A i \in DOMAIN events : events[i].type = "wincap" =>
                \A j \in DOMAIN events : j > i => events[j].type # "reveal")
    /\ [][(game = "guillotine" /\ wincap_triggered) =>
            /\ pc' \notin { "g_eval", "g_fs_eval", "g_fscheck", "g_fs_loop" }
            /\ fs' = fs /\ gametype' = gametype /\ attempt' = attempt
            /\ wincap_triggered']_vars

\* the free spins were left by the wincap with free spins still to play, in
\* a spin whose retrigger had just added some
C35_Witness ==
    /\ game = "guillotine" /\ wincap_triggered /\ pc = "final"
    /\ gametype = freegame_type /\ fs < tot_fs
    /\ \E i \in DOMAIN events :
          /\ events[i].type = "wincap"
          /\ events[i - 1].type = "freeSpinTrigger"
          /\ events[i - 1].gameType = freegame_type
          /\ events[i + 1].type = "freeSpinEnd"

\* C36: in Alchemy, once wincap_triggered is true nothing more is played in
\* the episode: no step tumbles or changes the board, runs a feature handler,
\* draws a board, enters the free spins or plays a further free spin
C36_NothingPlayedAfterWincap ==
    [][(game = "alchemy" /\ wincap_triggered /\ attempt' = attempt) =>
          /\ board' = board
          /\ feature_pass'.invoked = feature_pass.invoked
          /\ gametype' = gametype
          /\ fs' = fs]_vars

\* C37: during the free spins of Alchemy and Guillotine 0 <= fs <= tot_fs in
\* every state, a step raises fs by exactly 1 when it draws a free spin and
\* leaves it alone otherwise, tot_fs never decreases, and free spins that end
\* without a wincap stop end with fs = tot_fs
C37_FreeSpinCounters ==
    /\ []((game \in { "alchemy", "guillotine" } /\ gametype = freegame_type) =>
            /\ 0 <= fs /\ fs <= tot_fs
            /\ (pc \in { "final", "done" } /\ ~wincap_triggered) => fs = tot_fs)
    /\ [][((game = "alchemy" \/ game = "guillotine")
              /\ gametype = freegame_type /\ gametype' = freegame_type) =>
            /\ tot_fs' >= tot_fs
            /\ fs' = IF pc = pc' \/ pc' \notin { "a_eval", "g_fs_eval" } THEN fs ELSE fs + 1]_vars

\* free spins that were retriggered and played to the end
C37_Witness ==
    /\ game \in { "alchemy", "guillotine" } /\ gametype = freegame_type /\ pc = "final"
    /\ ~wincap_triggered /\ fs = tot_fs
    /\ \E i \in DOMAIN events : /\ events[i].type = "freeSpinTrigger"
                                 /\ events[i].gameType = freegame_type
    /\ \E i \in DOMAIN events : /\ events[i].type = "updateFreeSpin"
                                 /\ events[i].amount = tot_fs

\* the cells whose symbol the last handler changed
Renamed ==
    { c \in A_Cells : board[c[1]][c[2]].name # feature_pass.entry[c[1]][c[2]].name }

\* the cells given to a handler
GivenCells(kind) ==
    { feature_pass.given[kind][i] : i \in DOMAIN feature_pass.given[kind] }

RECURSIVE DoubledTimes(_, _)
DoubledTimes(v, k) ==
    IF k = 0 THEN v ELSE DoubledTimes(Min(2 * v, maximum_board_mult), k - 1)

\* the bombs of the last handler that reach the cell under the radii
Reaching(c, radius) ==
    { i \in DOMAIN feature_pass.given.bomb :
        Dist(c, feature_pass.given.bomb[i]) <= radius[i] }

\* C39: apply_elixir_bomb gives every bomb a radius among 1,
\* bomb_explosion_radius and bomb_explosion_radius + 1, and under these radii
\* a cell within reach of k >= 1 bombs is marked to explode and its multiplier
\* is doubled k times (up to maximum_board_mult), every bomb's own cell among
\* them, while every other cell, and so every cell farther than
\* bomb_explosion_radius + 1 from every bomb, keeps its symbol, its flag and
\* its multiplier
C39_ElixirBombFrame ==
    (game = "alchemy" /\ pc = "h_done" /\ pass.kind = "bomb") =>
        /\ \E radius \in [DOMAIN feature_pass.given.bomb ->
                              { 1, bomb_explosion_radius, bomb_explosion_radius + 1 }] :
              \A c \in A_Cells :
                 /\ board[c[1]][c[2]] =
                       IF Reaching(c, radius) # { }
                       THEN [feature_pass.entry[c[1]][c[2]] EXCEPT !.explode = TRUE]
                       ELSE feature_pass.entry[c[1]][c[2]]
                 /\ position_multipliers[c[1]][c[2]] =
                       DoubledTimes(pass.before[c[1]][c[2]],
                                    Cardinality(Reaching(c, radius)))
        /\ \A c \in GivenCells("bomb") : board[c[1]][c[2]].explode
        /\ \A c \in A_Cells :
              (\A b \in GivenCells("bomb") : Dist(c, b) > bomb_explosion_radius + 1) =>
                 /\ board[c[1]][c[2]] = feature_pass.entry[c[1]][c[2]]
                 /\ position_multipliers[c[1]][c[2]] = pass.before[c[1]][c[2]]

\* two bombs whose explosions overlap: a cell doubled twice, a cell doubled
\* once and a cell out of reach
C39_Witness ==
    /\ game = "alchemy" /\ pc = "h_done" /\ pass.kind = "bomb"
    /\ Len(feature_pass.given.bomb) = 2
    /\ \E c, d, e \in A_Cells :
          /\ pass.before[c[1]][c[2]] = 1 /\ position_multipliers[c[1]][c[2]] = 4
          /\ position_multipliers[d[1]][d[2]] = 2
          /\ position_multipliers[e[1]][e[2]] = 1 /\ ~board[e[1]][e[2]].explode
          /\ \A b \in GivenCells("bomb") : Dist(e, b) > bomb_explosion_radius + 1

\* the names on the board before the i-th transform of the last handler
NamesBefore(i) ==
    IF i = 1 THEN board_names(feature_pass.entry) ELSE feature_pass.events[i - 1].board

====
